---- MODULE Spec2Model ----
(***************************************************************************)
(* Model of the solchat relay: the message router (router.rs) and the      *)
(* connection actor that drives it (main.rs).                              *)
(*                                                                         *)
(* One stream handler (handle_stream / handle_chat_message) is a process   *)
(* with a program counter; every .await at which another task can run is a *)
(* separate step.  The router's two RwLocks are modelled explicitly where  *)
(* the code holds them across an .await: the read lock on `connections`    *)
(* during the outbox send of route_message, the write lock on              *)
(* `message_queue` during the drain loop of deliver_queued_messages.       *)
(*                                                                         *)
(* An outbox (tokio mpsc channel) is the pair placed/taken: placed[c] is   *)
(* every message ever accepted by the channel, taken[c] how many of them   *)
(* the receiver has consumed; the channel's buffer is the rest.            *)
(***************************************************************************)
EXTENDS Integers, Sequences, FiniteSets, TLC

\* ---- bounds of the model ------------------------------------------------
\* scaled stand-in for the per-recipient queue capacity (100 in the source)
QueueCap == 2
\* scaled stand-in for the outbox channel capacity (100 in the source)
ChanCap == 2
\* number of Chat frames the clients submit in one run of the relay
MaxMsgs == 3
\* number of Chat frames in one run of the router driven one call at a time
MaxSeqMsgs == 4
\* SystemTime::now() reads a value in 1 .. MaxNow
MaxNow == 2
\* number of Chat frames in one run of the relay with a shared wallet
MaxSharedMsgs == 4
\* number of frames of any kind in one run of the relay
MaxFrames == 3
MaxCalls == 3
MaxLifeMsgs == 2
MaxLockMsgs == 3
MaxOutMsgs == 3
MaxCut == 3
MaxU64 == 15
MaxTtl == 3

\* ---- program constants ---------------------------------------------------
MAX_QUEUED_MESSAGES == QueueCap
OUTBOX_CAPACITY == ChanCap

\* WalletAddress::test_address(seed): the wallets are named by their seed byte
Wallets == {1, 2}
\* accepted QUIC connections; each owns one outbox channel
Conns == {1, 2}
NoConn == 0
\* concurrently running stream handlers
Streams == {1, 2}
NoStream == 0

None == "none"
Running == 0 - 1
Delivered == "DELIVERED"
Failed == "FAILED"
Expired == "EXPIRED"
Rejected == "REJECTED"

\* Display for WalletAddress: the base58 rendering of the 32 bytes
to_string(w) == IF w = 1 THEN "W1" ELSE "W2"

\* bs58::decode + length check of ChatMessage::sender / recipient:
\* the wallet, or ParseErr when the string is not a 32-byte base58 address
ParseErr == 0
parse_wallet(str) == IF str = "W1" THEN 1 ELSE IF str = "W2" THEN 2 ELSE ParseErr

\* an is_expired that grants one more second
is_expiredLate(chat, t) == IF chat.ttl = 0 THEN FALSE ELSE t > chat.timestamp + chat.ttl + 1

\* u64 + u64 of a build without overflow checks: the sum wraps around.
\* MaxU64 stands for u64::MAX.
wrapping_add(a, b) == (a + b) % (MaxU64 + 1)

\* u64 + u64 does not fit in 64 bits: a build with overflow checks panics
overflows(a, b) == a + b > MaxU64

\* ChatMessage::is_expired at wall-clock time t, when it returns:
\* now > self.timestamp + self.ttl as u64
is_expired(chat, t) ==
    IF chat.ttl = 0 THEN FALSE ELSE t > wrapping_add(chat.timestamp, chat.ttl)

\* what a call of ChatMessage::is_expired at time t can do: return, or panic
\* on the overflowing sum when the build checks overflow
is_expired_outcomes(chat, t) ==
    {IF is_expired(chat, t) THEN "true" ELSE "false"} \cup
    (IF chat.ttl # 0 /\ overflows(chat.timestamp, chat.ttl) THEN {"panic"} ELSE {})

\* AckMessage::new(ref_message_id, status)
AckMessage(ref, st) == [ref_message_id |-> ref, status |-> st]

VARIABLES
    connections,    \* router: wallet string -> ClientConnection
    message_queue,  \* router: recipient string -> Vec<RoutableMessage>
    connReaders,    \* streams holding the read lock of `connections`
    queueLock,      \* stream holding the write lock of `message_queue`, or NoStream
    connState,      \* per connection: "none", "open", "closed"
    rxAlive,        \* per connection: the receiving half of the outbox exists
    placed,         \* per connection: messages accepted by the outbox, in order
    taken,          \* per connection: how many of them the receiver consumed
    pc,             \* per stream: position of the handler
    sconn,          \* per stream: the connection the stream belongs to
    frame,          \* per stream: the Chat being handled
    target,         \* per stream: the send_channel found by route_message
    messages,       \* per stream: the Vec removed by deliver_queued_messages
    delivered,      \* per stream: deliver_queued_messages' counter
    acks,           \* per chat id: the Acks written back on its stream
    nextId,         \* the id of the next Chat frame
    messages_failed, \* metrics: the messages_failed counter
    active_connections, \* metrics: the active_connections gauge
    exit_code,      \* the process: Running, or the code it exited with
    stats_pc,       \* the metrics updater inside get_stats: "idle", or "table"
                    \* when it holds the read lock of `connections`
    wire,           \* per connection: what the outgoing task did with each
                    \* message it took from the outbox, in order
    fcall,          \* a library function applied on its own: its input and
                    \* what came of it
    enq,            \* history: per recipient, the messages handed to the
                    \* current incarnation of its queue, in order
    ingress         \* history: per routed chat id, the connection it came
                    \* from and the ids already answered when it was read

vars == <<connections, message_queue, connReaders, queueLock, connState,
          rxAlive, placed, taken, pc, sconn, frame, target, messages,
          delivered, acks, nextId, messages_failed, active_connections,
          exit_code, stats_pc, wire, fcall, enq, ingress>>

routerVars == <<connections, message_queue, connReaders, queueLock>>
chanVars == <<placed, taken>>
streamVars == <<pc, sconn, frame, target, messages, delivered>>
histVars == <<enq, ingress>>
procVars == <<active_connections, exit_code, stats_pc, wire, fcall>>
NoCall == [fn |-> "none"]

NoChat == [id |-> 0]

\* the buffer of connection c's outbox
outbox(c) == SubSeq(placed[c], taken[c] + 1, Len(placed[c]))

\* mpsc::Sender::send would complete at once with Ok
HasRoom(c) == Len(placed[c]) - taken[c] < OUTBOX_CAPACITY

Init ==
    /\ connections = << >>
    /\ message_queue = << >>
    /\ connReaders = {}
    /\ queueLock = NoStream
    /\ connState = [c \in Conns |-> "none"]
    /\ rxAlive = [c \in Conns |-> FALSE]
    /\ placed = [c \in Conns |-> << >>]
    /\ taken = [c \in Conns |-> 0]
    /\ pc = [s \in Streams |-> "idle"]
    /\ sconn = [s \in Streams |-> NoConn]
    /\ frame = [s \in Streams |-> NoChat]
    /\ target = [s \in Streams |-> NoConn]
    /\ messages = [s \in Streams |-> << >>]
    /\ delivered = [s \in Streams |-> 0]
    /\ acks = << >>
    /\ nextId = 1
    /\ messages_failed = 0
    /\ active_connections = 0
    /\ exit_code = Running
    /\ stats_pc = "idle"
    /\ wire = [c \in Conns |-> << >>]
    /\ fcall = NoCall
    /\ enq = << >>
    /\ ingress = << >>

\* an insert that keeps the value of a key that is already bound
MapPutIfAbsent(f, k, v) == [x \in (DOMAIN f) \cup {k} |-> IF x \in DOMAIN f THEN f[x] ELSE v]

\* HashMap::insert / entry().or_insert: the map f with key k bound to v
MapPut(f, k, v) == [x \in (DOMAIN f) \cup {k} |-> IF x = k THEN v ELSE f[x]]

\* HashMap::remove: the map f without key k
MapDel(f, k) == [x \in (DOMAIN f) \ {k} |-> f[x]]

\* a router that rebuilds the envelope with a fresh timestamp
RoutableMessageRestamped(chat, addr) ==
    [message |-> [chat EXCEPT !.timestamp = 1], sender_addr |-> addr]

\* RoutableMessage { message, sender_addr }
RoutableMessage(chat, addr) == [message |-> chat, sender_addr |-> addr]

\* queue.values().map(|v| v.len()).sum()
RECURSIVE SumLen(_, _)
SumLen(q, keys) ==
    IF keys = {} THEN 0
    ELSE LET k == CHOOSE x \in keys : TRUE
         IN Len(q[k]) + SumLen(q, keys \ {k})

\* a get_stats that reports the number of queues as the number of messages
get_statsCountingQueues ==
    [connected_clients |-> Cardinality(DOMAIN connections),
     queued_messages |-> Cardinality(DOMAIN message_queue),
     recipients_with_queued |-> Cardinality(DOMAIN message_queue)]

\* MessageRouter::get_stats
get_stats ==
    [connected_clients |-> Cardinality(DOMAIN connections),
     queued_messages |-> SumLen(message_queue, DOMAIN message_queue),
     recipients_with_queued |-> Cardinality(DOMAIN message_queue)]

\* a queue_message that pushes at the front of the Vec
queue_messagePrepend(queue, recipient, message) ==
    LET old == IF recipient \in DOMAIN queue THEN queue[recipient] ELSE << >>
        kept == IF Len(old) >= MAX_QUEUED_MESSAGES THEN Tail(old) ELSE old
    IN MapPut(queue, recipient, << message >> \o kept)

\* a queue_message that, on a full queue, keeps the queue and drops the newcomer
queue_messageKeepOldest(queue, recipient, message) ==
    LET old == IF recipient \in DOMAIN queue THEN queue[recipient] ELSE << >>
    IN MapPut(queue, recipient,
              IF Len(old) >= MAX_QUEUED_MESSAGES THEN old ELSE Append(old, message))

\* a queue_message whose capacity test is `>` instead of `>=`
queue_messageOffByOne(queue, recipient, message) ==
    LET old == IF recipient \in DOMAIN queue THEN queue[recipient] ELSE << >>
        kept == IF Len(old) > MAX_QUEUED_MESSAGES THEN Tail(old) ELSE old
    IN MapPut(queue, recipient, Append(kept, message))

\* MessageRouter::queue_message: the queue map after queueing `message`
queue_message(queue, recipient, message) ==
    LET old == IF recipient \in DOMAIN queue THEN queue[recipient] ELSE << >>
        kept == IF Len(old) >= MAX_QUEUED_MESSAGES THEN Tail(old) ELSE old
    IN MapPut(queue, recipient, Append(kept, message))

\* a drain that yields the Vec from its back
drainedFromBack(msgs, k) == msgs[Len(msgs) - k]

\* messages.drain(..): the element the iterator yields after k were yielded
drained(msgs, k) == msgs[k + 1]

\* deliver_queued_messages: what is collected for re-queueing when the send
\* of the element yielded after k deliveries fails.  Only the failing message
\* is pushed before `break`; dropping the Drain iterator discards the
\* elements not yet yielded.
failed_messages(msgs, k) == << drained(msgs, k) >>

\* what has been written back on the stream of chat id, in the ack map a
AcksIn(a, id) == IF id \in DOMAIN a THEN a[id] ELSE << >>
AcksOf(id) == AcksIn(acks, id)

\* a handler that writes its Ack twice
AckWriteTwice(s, st) ==
    IF connState[sconn[s]] = "open"
    THEN MapPut(acks, frame[s].id,
                AcksOf(frame[s].id) \o << AckMessage(frame[s].id, st), AckMessage(frame[s].id, st) >>)
    ELSE acks

\* the Ack of handle_chat_message: send.write_all(&ack_bytes) appends the Ack
\* to what was written on the chat's stream; it fails on a closed connection
AckWrite(s, st) ==
    IF connState[sconn[s]] = "open"
    THEN MapPut(acks, frame[s].id, AcksOf(frame[s].id) \o << AckMessage(frame[s].id, st) >>)
    ELSE acks

\* a decrement_connections that is applied twice
decrement_connectionsTwice(n) == n - 2

\* Metrics::increment_connections / decrement_connections: the gauge's
\* inc() and dec()
increment_connections(n) == n + 1
decrement_connections(n) == n - 1

\* a record_message_failed that counts a failure twice
record_message_failedTwice(n) == n + 2

\* RelayMetrics::record_message_failed: messages_failed.inc()
record_message_failed(n) == n + 1

\* handle_stream after a handler returned: Metrics::record_message_failed
\* when the handler's write failed, i.e. when the connection is closed
AckFailure(s) ==
    IF connState[sconn[s]] = "open" THEN messages_failed ELSE record_message_failed(messages_failed)

\* streams whose handler is between reading a frame and answering it
InFlight == {s \in Streams : pc[s] # "idle"}

\* no handler is running
Quiet == \A s \in Streams : pc[s] = "idle"

\* the handler of stream s returns: its locals are gone
Return(s) ==
    /\ pc' = [pc EXCEPT ![s] = "idle"]
    /\ sconn' = [sconn EXCEPT ![s] = NoConn]
    /\ frame' = [frame EXCEPT ![s] = NoChat]
    /\ target' = [target EXCEPT ![s] = NoConn]

\* ---- connection actor (main.rs) --------------------------------------------

\* handle_connection: the handshake succeeded; the outbox channel is created
\* and the incoming and outgoing tasks are spawned
Accept(c) ==
    /\ connState[c] = "none"
    /\ \A x \in Conns : x < c => connState[x] # "none"
    /\ connState' = [connState EXCEPT ![c] = "open"]
    /\ active_connections' = increment_connections(active_connections)
    /\ rxAlive' = [rxAlive EXCEPT ![c] = TRUE]
    /\ UNCHANGED <<exit_code, stats_pc, wire, fcall, routerVars, chanVars, streamVars, histVars, acks, nextId, messages_failed>>

\* handle_connection after select!: the connection is gone and the actor
\* returns.  The router is not told; both spawned tasks are detached.
ConnectionClosed(c) ==
    /\ connState[c] = "open"
    /\ connState' = [connState EXCEPT ![c] = "closed"]
    /\ active_connections' = decrement_connections(active_connections)
    /\ UNCHANGED <<exit_code, stats_pc, wire, fcall, routerVars, rxAlive, chanVars, streamVars, histVars, acks, nextId, messages_failed>>

\* handle_connection: conn.await returned Err; the failure is logged and
\* nothing else happens
HandshakeFailed(c) ==
    /\ connState[c] = "none"
    /\ \A x \in Conns : x < c => connState[x] # "none"
    /\ connState' = [connState EXCEPT ![c] = "failed"]
    /\ UNCHANGED <<routerVars, rxAlive, chanVars, streamVars, histVars, acks, nextId,
                   messages_failed, procVars>>

\* some producer handle of connection c's outbox still exists: the one the
\* incoming task owns, a clone held by a stream handler, or a clone stored
\* in the connection table
HasSenders(c) ==
    \/ connState[c] = "open"
    \/ \E s \in Streams : pc[s] # "idle" /\ sconn[s] = c
    \/ \E w \in DOMAIN connections : connections[w].send_channel = c

\* outgoing task of a connection: rx.recv() returns None, because the
\* outbox is empty and every producer handle is dropped; the loop ends and
\* the task completes
OutgoingEnds(c) ==
    /\ rxAlive[c]
    /\ ~HasSenders(c)
    /\ taken[c] = Len(placed[c])
    /\ rxAlive' = [rxAlive EXCEPT ![c] = FALSE]
    /\ UNCHANGED <<routerVars, connState, procVars, chanVars, streamVars, histVars, acks,
                   nextId, messages_failed>>

\* main: select! returned because the metrics server or the QUIC accept
\* loop came to an end; main logs the fact and returns Ok(())
ServerStopped(which) ==
    /\ which \in {"metrics_server", "quic_server"}
    /\ exit_code = Running
    /\ exit_code' = 0
    /\ UNCHANGED <<routerVars, connState, rxAlive, chanVars, streamVars, histVars, acks,
                   nextId, messages_failed, active_connections, stats_pc, wire, fcall>>

\* the owner of the receiving half drops it (mpsc::Receiver's Drop): the
\* channel is closed for its senders
ReceiverDropped(c) ==
    /\ connState[c] # "none"
    /\ rxAlive[c]
    /\ rxAlive' = [rxAlive EXCEPT ![c] = FALSE]
    /\ UNCHANGED <<routerVars, connState, procVars, chanVars, streamVars, histVars, acks, nextId, messages_failed>>

\* an outgoing task that gives up at the first message it cannot forward
ForwardStopsOnFailure(c, outcome) ==
    /\ rxAlive[c]
    /\ taken[c] < Len(placed[c])
    /\ connState[c] # "open" => outcome = "open failed"
    /\ taken' = [taken EXCEPT ![c] = @ + 1]
    /\ wire' = [wire EXCEPT ![c] =
                   Append(@, [message |-> placed[c][taken[c] + 1], outcome |-> outcome])]
    /\ rxAlive' = [rxAlive EXCEPT ![c] = outcome = "forwarded"]
    /\ UNCHANGED <<routerVars, connState, active_connections, exit_code, stats_pc, fcall,
                   placed, streamVars, histVars, acks, nextId, messages_failed>>

\* what one iteration of the outgoing task's loop comes to: the message is
\* written on a new stream, or open_bi fails, or write_all fails
Outcomes == {"forwarded", "open failed", "write failed"}

\* outgoing task, one iteration of its loop with its outcome: rx.recv()
\* yields the next message of the outbox; a failure is logged and the loop
\* goes on.  No stream can be opened on a connection that is closed.
Forward(c, outcome) ==
    /\ rxAlive[c]
    /\ taken[c] < Len(placed[c])
    /\ connState[c] # "open" => outcome = "open failed"
    /\ taken' = [taken EXCEPT ![c] = @ + 1]
    /\ wire' = [wire EXCEPT ![c] =
                   Append(@, [message |-> placed[c][taken[c] + 1], outcome |-> outcome])]
    /\ UNCHANGED <<routerVars, connState, active_connections, exit_code, stats_pc, fcall,
                   rxAlive, placed, streamVars, histVars, acks, nextId, messages_failed>>

\* outgoing task, one iteration of its loop whatever its outcome: rx.recv()
\* yields the next message of the outbox
Pump(c) ==
    /\ rxAlive[c]
    /\ taken[c] < Len(placed[c])
    /\ taken' = [taken EXCEPT ![c] = @ + 1]
    /\ UNCHANGED <<routerVars, connState, procVars, rxAlive, placed, streamVars, histVars, acks, nextId, messages_failed>>

\* the Chat frames the clients submit: connection, sender, recipient, payload,
\* ttl.  Connection 1 speaks for wallet 1 and connection 2 for wallet 2: a
\* chat each way, a chat of wallet 1 to itself, a chat with an unparsable
\* sender (and a ttl), and a chat with an empty payload (and a ttl).
ChatInputs ==
    { <<1, "W1", "W2", <<1>>, 0>>, <<2, "W2", "W1", <<1>>, 0>>,
      <<1, "W1", "W1", <<1>>, 0>>, <<2, "bad", "W1", <<1>>, 1>>,
      <<2, "W2", "W1", << >>, 1>> }

\* a validation that looks at the expiry before the payload
validateExpiryFirst(chat, t) ==
    IF is_expired(chat, t) THEN Expired
    ELSE IF chat.encrypted_payload = << >> THEN Rejected
    ELSE None

\* handle_chat_message, "Basic validation": the status of the Ack that
\* answers the chat without routing it, or None; t is the clock reading
validate(chat, t) ==
    IF chat.encrypted_payload = << >> THEN Rejected
    ELSE IF is_expired(chat, t) THEN Expired
    ELSE None

\* the ids answered before the frame that is being read
AnsweredBefore == (1 .. (nextId - 1)) \ {frame[x].id : x \in InFlight}

\* a handle_chat_message that registers the sender before it validates
handle_chat_messageRegistersFirst(s, c, chat, t) ==
    LET verdict == validate(chat, t)
        w == parse_wallet(chat.sender_wallet)
    IN
    /\ pc[s] = "idle"
    /\ \A x \in Streams : x < s => pc[x] # "idle"
    /\ connState[c] = "open"
    /\ nextId' = nextId + 1
    /\ IF verdict # None
       THEN /\ acks' = MapPut(acks, chat.id, << AckMessage(chat.id, verdict) >>)
            /\ connections' = IF w # ParseErr
                              THEN MapPut(connections, to_string(w),
                                          [wallet_address |-> w, send_channel |-> c])
                              ELSE connections
            /\ UNCHANGED <<pc, sconn, frame>>
       ELSE /\ pc' = [pc EXCEPT ![s] = IF w # ParseErr THEN "register" ELSE "route"]
            /\ sconn' = [sconn EXCEPT ![s] = c]
            /\ frame' = [frame EXCEPT ![s] = chat]
            /\ UNCHANGED <<acks, connections>>
    /\ UNCHANGED <<message_queue, connReaders, queueLock, connState, procVars, rxAlive,
                   chanVars, target, messages, delivered, messages_failed, enq>>

\* handle_chat_message up to the registration: stream s of connection c got
\* the Chat `chat`, the clock reads t.  A chat that fails the validation is
\* answered at once; any other goes on to register_client, or straight to
\* route_message when its sender does not parse.
handle_chat_message(s, c, chat, t) ==
    LET verdict == validate(chat, t) IN
    /\ pc[s] = "idle"
    /\ \A x \in Streams : x < s => pc[x] # "idle"
    /\ connState[c] = "open"
    /\ nextId' = nextId + 1
    /\ IF verdict # None
       THEN /\ acks' = MapPut(acks, chat.id, << AckMessage(chat.id, verdict) >>)
            /\ UNCHANGED <<pc, sconn, frame>>
       ELSE /\ pc' = [pc EXCEPT ![s] =
                        IF parse_wallet(chat.sender_wallet) # ParseErr
                        THEN "register" ELSE "route"]
            /\ sconn' = [sconn EXCEPT ![s] = c]
            /\ frame' = [frame EXCEPT ![s] = chat]
            /\ UNCHANGED acks
    /\ UNCHANGED <<routerVars, connState, procVars, rxAlive, chanVars, target, messages,
                   delivered, messages_failed, enq>>

\* ChatMessage with the fields of an input tuple
ChatOf(id, in) ==
    [id |-> id, sender_wallet |-> in[2], recipient_wallet |-> in[3],
     timestamp |-> 0, encrypted_payload |-> in[4],
     attachment_url |-> None, ttl |-> in[5], signature |-> <<7>>]

\* handle_stream + handle_chat_message: a Chat frame, one of `inputs`, is
\* read from a new stream of a connection and checked
ChatFrameFrom(s, inputs) ==
    \E in \in inputs, t \in 1 .. MaxNow :
        LET c == in[1]
            chat == ChatOf(nextId, in)
        IN
        /\ handle_chat_message(s, c, chat, t)
        /\ ingress' = IF validate(chat, t) # None THEN ingress
                      ELSE MapPut(ingress, chat.id, [conn |-> c, answered |-> AnsweredBefore])

ChatFrame(s) == ChatFrameFrom(s, ChatInputs)

\* Chat frames of a wallet that is used on two connections: wallet 1 chats
\* to itself on connection 1 and on connection 2, and wallet 2 chats to
\* wallet 1 on connection 2
SharedWalletInputs ==
    { <<1, "W1", "W1", <<1>>, 0>>, <<2, "W1", "W1", <<1>>, 0>>,
      <<2, "W2", "W1", <<1>>, 0>> }

SharedWalletFrame(s) == ChatFrameFrom(s, SharedWalletInputs)

\* ---- the five envelope variants on one connection (main.rs) ------------------

\* the envelope variants, in the order in which handle_stream tries them
Variants == << "Chat", "Ack", "ReadReceipt", "Ping", "Pong" >>

\* the frames the clients submit: Chat frames (a chat of wallet 1 to itself,
\* a chat of wallet 2 to wallet 1, and of wallet 1 to wallet 2 a chat with an
\* empty payload and a ttl and a chat with a ttl), an Ack and a ReadReceipt
\* that refer to a message of wallet 2, an Ack that refers to a message of an
\* unknown wallet, a Ping, a Pong, and bytes that are no envelope.  An id
\* string is the sequence of its pieces, "-" being the separator.
FrameInputs ==
    { [kind |-> "Chat", conn |-> 1, in |-> <<1, "W1", "W1", <<1>>, 0>>],
      [kind |-> "Chat", conn |-> 2, in |-> <<2, "W2", "W1", <<1>>, 0>>],
      [kind |-> "Chat", conn |-> 1, in |-> <<1, "W1", "W2", << >>, 1>>],
      [kind |-> "Chat", conn |-> 1, in |-> <<1, "W1", "W2", <<1>>, 1>>],
      [kind |-> "Ack", conn |-> 1,
       body |-> [id |-> <<"a">>, ref_message_id |-> <<"W2", "-", "m">>, status |-> Delivered]],
      [kind |-> "Ack", conn |-> 1,
       body |-> [id |-> <<"a">>, ref_message_id |-> <<"W9", "-", "m">>, status |-> Delivered]],
      [kind |-> "ReadReceipt", conn |-> 1,
       body |-> [id |-> <<"r">>, message_id |-> <<"W2", "-", "m">>, reader |-> "W1", read_at |-> 1]],
      [kind |-> "Ping", conn |-> 1, body |-> [id |-> <<"p">>, timestamp |-> 1, data |-> <<1>>]],
      [kind |-> "Pong", conn |-> 1,
       body |-> [id |-> <<"q">>, ref_ping_id |-> <<"p">>, timestamp |-> 1, data |-> <<1>>]],
      [kind |-> "Garbage", conn |-> 2, body |-> <<255>>] }

\* prost::Message::decode tried variant by variant: the first variant that
\* decodes the frame without error, or None
decode(f) ==
    IF \E i \in 1 .. Len(Variants) : Variants[i] = f.kind THEN f.kind ELSE None

\* a Pong stamped one second after the Ping
PongMessageRestamped(ping) ==
    [id |-> ping.id, timestamp |-> ping.timestamp + 1, data |-> ping.data,
     ref_ping_id |-> ping.id]

\* handle_ping_message: the Pong written back for a Ping
PongMessage(ping) ==
    [id |-> ping.id, timestamp |-> ping.timestamp, data |-> ping.data,
     ref_ping_id |-> ping.id]

\* what handle_stream's handler writes back on the stream for a frame that is
\* not a Chat: handle_ack_message and handle_read_receipt_message write the
\* frame they got, handle_ping_message a Pong, handle_pong_message nothing
written_back(f) ==
    IF decode(f) \in {"Ack", "ReadReceipt"} THEN << f.body >>
    ELSE IF decode(f) = "Ping" THEN << PongMessage(f.body) >>
    ELSE << >>

\* a handle_stream that, on a frame that decodes as no variant, also drops
\* the table entries of the connection the frame came from
OtherFrameDropsClient(s, f) ==
    /\ pc[s] = "idle"
    /\ \A x \in Streams : x < s => pc[x] # "idle"
    /\ connState[f.conn] = "open"
    /\ nextId' = nextId + 1
    /\ acks' = IF written_back(f) = << >> THEN acks
               ELSE MapPut(acks, nextId, written_back(f))
    /\ messages_failed' = IF decode(f) = None THEN record_message_failed(messages_failed)
                          ELSE messages_failed
    /\ connections' = IF decode(f) = None
                      THEN [w \in {x \in DOMAIN connections :
                                     connections[x].send_channel # f.conn} |-> connections[w]]
                      ELSE connections
    /\ UNCHANGED <<message_queue, connReaders, queueLock, connState, procVars, rxAlive, chanVars,
                   streamVars, enq>>

\* handle_stream for a frame that is not a Chat: the handler answers on the
\* stream; a frame that decodes as no variant is counted as failed
OtherFrame(s, f) ==
    /\ pc[s] = "idle"
    /\ \A x \in Streams : x < s => pc[x] # "idle"
    /\ connState[f.conn] = "open"
    /\ nextId' = nextId + 1
    /\ acks' = IF written_back(f) = << >> THEN acks
               ELSE MapPut(acks, nextId, written_back(f))
    /\ messages_failed' = IF decode(f) = None THEN record_message_failed(messages_failed)
                          ELSE messages_failed
    /\ UNCHANGED <<routerVars, connState, procVars, rxAlive, chanVars, streamVars, enq>>

\* handle_stream: a frame is read from a new stream of a connection, decoded
\* and handed to its handler; the clock reads t.  The clients submit a Chat
\* when no Chat is being handled, any other frame at any time.
Frame(s) ==
    \E f \in FrameInputs, t \in 1 .. MaxNow :
        /\ IF decode(f) = "Chat"
           THEN Quiet /\ handle_chat_message(s, f.conn, ChatOf(nextId, f.in), t)
           ELSE OtherFrame(s, f)
        /\ ingress' = MapPut(ingress, nextId,
                         [conn |-> f.conn, answered |-> AnsweredBefore, kind |-> f.kind,
                          body |-> IF f.kind = "Chat" THEN ChatOf(nextId, f.in) ELSE f.body,
                          at |-> IF f.kind = "Chat" THEN t ELSE 0])

\* ---- router (router.rs) ---------------------------------------------------

\* nobody holds the read lock of `connections`: a write lock is granted
NoTableReader == connReaders = {} /\ stats_pc = "idle"

\* register_client up to drop(connections): insert or replace the entry
RegisterInsert(s) ==
    /\ pc[s] = "register"
    /\ NoTableReader
    /\ LET w == parse_wallet(frame[s].sender_wallet)
       IN connections' = MapPut(connections, to_string(w),
                            [wallet_address |-> w, send_channel |-> sconn[s]])
    /\ pc' = [pc EXCEPT ![s] = "deliver"]
    /\ UNCHANGED <<message_queue, connReaders, queueLock, connState, procVars, rxAlive, chanVars,
                   sconn, frame, target, messages, delivered, acks, nextId,
                   messages_failed, histVars>>

\* a deliver_queued_messages that takes the wallet's messages and leaves the
\* emptied Vec in the map
DeliverStartLeavesEmpty(s) ==
    LET key == frame[s].sender_wallet IN
    /\ pc[s] = "deliver"
    /\ queueLock = NoStream
    /\ IF key \in DOMAIN message_queue
       THEN /\ message_queue' = MapPut(message_queue, key, << >>)
            /\ messages' = [messages EXCEPT ![s] = message_queue[key]]
            /\ queueLock' = s
            /\ pc' = [pc EXCEPT ![s] = IF message_queue[key] = << >> THEN "route" ELSE "drain"]
       ELSE /\ pc' = [pc EXCEPT ![s] = "route"]
            /\ UNCHANGED <<message_queue, messages, queueLock>>
    /\ UNCHANGED <<connections, connReaders, connState, procVars, rxAlive, chanVars, sconn, frame,
                   target, delivered, acks, nextId, messages_failed, histVars>>

\* a deliver_queued_messages that takes the queue lock first and keeps it
\* when the wallet has no queue
DeliverStartHoldsLock(s) ==
    LET key == frame[s].sender_wallet IN
    /\ pc[s] = "deliver"
    /\ queueLock = NoStream
    /\ queueLock' = s
    /\ IF key \in DOMAIN message_queue
       THEN /\ message_queue' = MapDel(message_queue, key)
            /\ messages' = [messages EXCEPT ![s] = message_queue[key]]
            /\ pc' = [pc EXCEPT ![s] = "drain"]
       ELSE /\ pc' = [pc EXCEPT ![s] = "route"]
            /\ UNCHANGED <<message_queue, messages>>
    /\ UNCHANGED <<connections, connReaders, connState, procVars, rxAlive, chanVars, sconn, frame,
                   target, delivered, acks, nextId, messages_failed, histVars>>

\* deliver_queued_messages: take the queue lock and remove the wallet's queue
DeliverStart(s) ==
    LET key == frame[s].sender_wallet IN
    /\ pc[s] = "deliver"
    /\ queueLock = NoStream
    /\ IF key \in DOMAIN message_queue
       THEN /\ message_queue' = MapDel(message_queue, key)
            /\ messages' = [messages EXCEPT ![s] = message_queue[key]]
            /\ queueLock' = s
            /\ pc' = [pc EXCEPT ![s] = "drain"]
       ELSE /\ pc' = [pc EXCEPT ![s] = "route"]
            /\ UNCHANGED <<message_queue, messages, queueLock>>
    /\ UNCHANGED <<connections, connReaders, connState, procVars, rxAlive, chanVars, sconn, frame,
                   target, delivered, acks, nextId, messages_failed, histVars>>

\* deliver_queued_messages: one iteration of the drain loop, and the code
\* after the loop when this iteration is the last one
DrainSend(s) ==
    LET c == sconn[s]
        key == frame[s].sender_wallet
        m == drained(messages[s], delivered[s])
        leave == /\ queueLock' = NoStream
                 /\ pc' = [pc EXCEPT ![s] = "route"]
                 /\ messages' = [messages EXCEPT ![s] = << >>]
                 /\ delivered' = [delivered EXCEPT ![s] = 0]
    IN
    /\ pc[s] = "drain"
    /\ IF ~rxAlive[c]
       THEN LET failed == failed_messages(messages[s], delivered[s])
                old == IF key \in DOMAIN message_queue THEN message_queue[key] ELSE << >>
            IN /\ message_queue' = MapPut(message_queue, key, old \o failed)
               /\ enq' = MapPut(enq, key, old \o failed)
               /\ leave
               /\ UNCHANGED placed
       ELSE /\ HasRoom(c)
            /\ placed' = [placed EXCEPT ![c] = Append(@, m)]
            /\ IF delivered[s] + 1 = Len(messages[s])
               THEN leave
               ELSE /\ delivered' = [delivered EXCEPT ![s] = @ + 1]
                    /\ UNCHANGED <<queueLock, pc, messages>>
            /\ UNCHANGED <<message_queue, enq>>
    /\ UNCHANGED <<connections, connReaders, connState, procVars, rxAlive, taken, sconn, frame,
                   target, acks, nextId, messages_failed, ingress>>

\* route_message, Chat arm, the send on channel c:
\* connection.send_channel.send(routable).await and, on Ok, the Ack of
\* handle_chat_message; on Err (channel closed) the read lock is dropped and
\* the message goes to queue_message
SendOnOutbox(s, c) ==
    /\ connReaders' = connReaders \ {s}
    /\ IF ~rxAlive[c]
       THEN /\ pc' = [pc EXCEPT ![s] = "queue"]
            /\ target' = [target EXCEPT ![s] = NoConn]
            /\ UNCHANGED <<placed, acks, sconn, frame, messages_failed>>
       ELSE /\ placed' = [placed EXCEPT ![c] =
                             Append(@, RoutableMessage(frame[s], sconn[s]))]
            /\ acks' = AckWrite(s, Delivered)
            /\ messages_failed' = AckFailure(s)
            /\ Return(s)

\* route_message, Chat arm: take the read lock and look the recipient up.
\* A recipient without entry: the lock is dropped, queue_message follows.
\* A recipient with entry: the send completes at once unless the outbox is
\* full; then the task is suspended in send().await holding the read lock.
RouteLookup(s) ==
    LET rcp == frame[s].recipient_wallet IN
    /\ pc[s] = "route"
    /\ IF rcp \notin DOMAIN connections
       THEN /\ pc' = [pc EXCEPT ![s] = "queue"]
            /\ UNCHANGED <<connReaders, target, placed, acks, sconn, frame, messages_failed>>
       ELSE LET c == connections[rcp].send_channel IN
            IF rxAlive[c] /\ ~HasRoom(c)
            THEN /\ connReaders' = connReaders \cup {s}
                 /\ target' = [target EXCEPT ![s] = c]
                 /\ pc' = [pc EXCEPT ![s] = "send"]
                 /\ UNCHANGED <<placed, acks, sconn, frame, messages_failed>>
            ELSE SendOnOutbox(s, c)
    /\ UNCHANGED <<connections, message_queue, queueLock, connState, procVars, rxAlive, taken,
                   messages, delivered, nextId, histVars>>

\* route_message, Chat arm: the suspended send().await completes, because
\* the outbox has room again or because its receiver is gone
RouteSend(s) ==
    /\ pc[s] = "send"
    /\ ~rxAlive[target[s]] \/ HasRoom(target[s])
    /\ SendOnOutbox(s, target[s])
    /\ UNCHANGED <<connections, message_queue, queueLock, connState, procVars, rxAlive, taken,
                   messages, delivered, nextId, histVars>>

\* route_message, Chat arm: queue_message under the queue lock, then the Ack
RouteQueue(s) ==
    LET rcp == frame[s].recipient_wallet
        m == RoutableMessage(frame[s], sconn[s])
    IN
    /\ pc[s] = "queue"
    /\ queueLock = NoStream
    /\ message_queue' = queue_message(message_queue, rcp, m)
    /\ enq' = MapPut(enq, rcp, IF rcp \in DOMAIN message_queue
                               THEN Append(enq[rcp], m) ELSE << m >>)
    /\ acks' = AckWrite(s, Delivered)
    /\ messages_failed' = AckFailure(s)
    /\ Return(s)
    /\ UNCHANGED <<connections, connReaders, queueLock, connState, procVars, rxAlive, chanVars,
                   messages, delivered, nextId, ingress>>

\* an unregister_client that discards the wallet's offline queue as well
UnregisterDropsQueue(w) ==
    /\ NoTableReader
    /\ connections' = MapDel(connections, to_string(w))
    /\ message_queue' = MapDel(message_queue, to_string(w))
    /\ UNCHANGED <<connReaders, queueLock, connState, procVars, rxAlive, chanVars,
                   streamVars, acks, nextId, messages_failed, histVars>>

\* unregister_client
Unregister(w) ==
    /\ NoTableReader
    /\ connections' = MapDel(connections, to_string(w))
    /\ UNCHANGED <<message_queue, connReaders, queueLock, connState, procVars, rxAlive, chanVars,
                   streamVars, acks, nextId, messages_failed, histVars>>

\* the text of an id is a sequence of pieces: a piece is a dash or a run of
\* characters without dash; wallet addresses hold no dash.  This reads the
\* piece after the first dash.
original_senderAfterDash(id) ==
    IF Len(id) >= 3 /\ id[2] = "-" THEN id[3] ELSE ""

\* route_message: id.split('-').next().unwrap_or(""), the text before the
\* first dash (empty when the id is empty or starts with a dash)
original_sender(id) == IF id = << >> \/ id[1] = "-" THEN "" ELSE id[1]

\* the id an Ack or a ReadReceipt refers to
ref_of(kind, body) == IF kind = "Ack" THEN body.ref_message_id ELSE body.message_id

\* the calls of route_message with a message that is not a Chat, and the
\* address of the caller
RouteInputs ==
    { [kind |-> "Ack", addr |-> 2,
       body |-> [id |-> <<"a">>, ref_message_id |-> <<"W1", "-", "m">>, status |-> Delivered]],
      [kind |-> "Ack", addr |-> 1,
       body |-> [id |-> <<"a">>, ref_message_id |-> <<"W2", "-", "W1">>, status |-> Delivered]],
      [kind |-> "Ack", addr |-> 1,
       body |-> [id |-> <<"a">>, ref_message_id |-> <<"W9", "-", "W1">>, status |-> Delivered]],
      [kind |-> "Ack", addr |-> 1,
       body |-> [id |-> <<"a">>, ref_message_id |-> <<"-", "W1">>, status |-> Delivered]],
      [kind |-> "Ack", addr |-> 1,
       body |-> [id |-> <<"a">>, ref_message_id |-> << >>, status |-> Delivered]],
      [kind |-> "ReadReceipt", addr |-> 2,
       body |-> [id |-> <<"r">>, message_id |-> <<"W1">>, reader |-> "W2", read_at |-> 1]],
      [kind |-> "ReadReceipt", addr |-> 1,
       body |-> [id |-> <<"r">>, message_id |-> <<"W2", "-", "m", "-", "W1">>, reader |-> "W1", read_at |-> 1]],
      [kind |-> "Ping", addr |-> 1, body |-> [id |-> <<"p">>, timestamp |-> 1, data |-> <<1>>]],
      [kind |-> "Pong", addr |-> 1,
       body |-> [id |-> <<"q">>, ref_ping_id |-> <<"p">>, timestamp |-> 1, data |-> <<1>>]] }

\* route_message, the arms other than Chat, as one call that has returned
\* `result`.  An Ack or a ReadReceipt goes to the outbox of the wallet its
\* referenced id starts with; the send waits while that outbox is full and
\* fails when its receiver is gone.  Ping and Pong are not routed.
RouteBack(call) ==
    LET key == original_sender(ref_of(call.kind, call.body))
        routed == call.kind \in {"Ack", "ReadReceipt"} /\ key \in DOMAIN connections
        c == connections[key].send_channel
        result == IF call.kind \in {"Ping", "Pong"} THEN Delivered
                  ELSE IF routed /\ rxAlive[c] THEN Delivered
                  ELSE Failed
    IN
    /\ routed => (~rxAlive[c] \/ HasRoom(c))
    /\ placed' = IF routed /\ rxAlive[c]
                 THEN [placed EXCEPT ![c] = Append(@, RoutableMessage(call.body, call.addr))]
                 ELSE placed
    /\ nextId' = nextId + 1
    /\ ingress' = MapPut(ingress, nextId, [call |-> call, result |-> result])
    /\ UNCHANGED <<routerVars, connState, procVars, rxAlive, taken, streamVars, acks,
                   messages_failed, enq>>

\* the chats that register the wallets, fill an outbox and fill a queue
\* before the router is called with other messages
RouteChatInputs ==
    { <<1, "W1", "W1", <<1>>, 0>>, <<1, "W1", "W2", <<1>>, 0>>,
      <<2, "W2", "W1", <<1>>, 0>> }

\* a Chat frame of RouteChatInputs is read
RouteChatFrame(s) == ChatFrameFrom(s, RouteChatInputs)

\* handle_stream: a Ping or a Pong frame is read from a new stream and
\* handed to its handler
PingPongFrame(s) ==
    \E f \in {x \in FrameInputs : x.kind \in {"Ping", "Pong"}} :
        /\ OtherFrame(s, f)
        /\ ingress' = MapPut(ingress, nextId,
                         [conn |-> f.conn, kind |-> f.kind, body |-> f.body])

\* the chats of the connections whose life is followed
LifeChatInputs == { <<1, "W1", "W1", <<1>>, 0>>, <<2, "W2", "W1", <<1>>, 0>> }

\* a Chat frame of LifeChatInputs is read
LifeChatFrame(s) == ChatFrameFrom(s, LifeChatInputs)

\* ---- the protocol crate's functions applied on their own -------------------

\* the state in which only `fcall` is set
Calling(c) ==
    /\ connections = << >> /\ message_queue = << >>
    /\ connReaders = {} /\ queueLock = NoStream
    /\ connState = [x \in Conns |-> "none"]
    /\ rxAlive = [x \in Conns |-> FALSE]
    /\ placed = [x \in Conns |-> << >>]
    /\ taken = [x \in Conns |-> 0]
    /\ pc = [s \in Streams |-> "idle"]
    /\ sconn = [s \in Streams |-> NoConn]
    /\ frame = [s \in Streams |-> NoChat]
    /\ target = [s \in Streams |-> NoConn]
    /\ messages = [s \in Streams |-> << >>]
    /\ delivered = [s \in Streams |-> 0]
    /\ acks = << >> /\ nextId = 1 /\ messages_failed = 0
    /\ active_connections = 0 /\ exit_code = Running
    /\ enq = << >> /\ ingress = << >>
    /\ stats_pc = "idle"
    /\ wire = [x \in Conns |-> << >>]
    /\ fcall = c

\* a Chat with any timestamp and ttl, and any reading of the clock
ExpiryInit ==
    \E ts \in 0 .. MaxU64, ttl \in 0 .. MaxTtl, now \in 0 .. MaxU64 :
        Calling([fn |-> "is_expired", timestamp |-> ts, ttl |-> ttl, now |-> now,
                 out |-> "pending"])

\* ChatMessage::is_expired is called
IsExpiredCall ==
    /\ fcall.fn = "is_expired"
    /\ fcall.out = "pending"
    /\ \E o \in is_expired_outcomes(fcall, fcall.now) : fcall' = [fcall EXCEPT !.out = o]
    /\ UNCHANGED <<routerVars, connState, rxAlive, chanVars, streamVars, histVars, acks,
                   nextId, messages_failed, active_connections, exit_code, stats_pc, wire>>

ExpirySpec == ExpiryInit /\ [][IsExpiredCall]_vars

\* ---- the protobuf codec of the five envelope variants ---------------------
\* The message types are generated from a .proto file that is not part of
\* the source, so the field numbers are not known: a field's number is its
\* position in the variant's field list, and the lists are taken either in
\* the order in which the source writes the struct literals ("declared") or
\* in the order of the envelope description ("listed").  A string, a byte
\* string and an optional string are length-delimited on the wire (LEN), an
\* integer and an enumeration are varints.  Strings and byte strings are
\* sequences of numbers; an optional string is << >> for None and << s >>
\* for Some(s).

Schemas == {"declared", "listed"}

\* "proto3": a field that holds its default value is not written;
\* "proto2": every field is written (all fields required), an optional one
\* when it is Some
Syntaxes == {"proto3", "proto2"}

Str(name) == [name |-> name, wt |-> "LEN", opt |-> FALSE]
Opt(name) == [name |-> name, wt |-> "LEN", opt |-> TRUE]
Uint(name) == [name |-> name, wt |-> "VARINT", opt |-> FALSE]

\* the fields of a variant in the order of their numbers
Fields(schema, kind) ==
    IF kind = "Chat" THEN
        IF schema = "declared"
        THEN << Str("id"), Str("sender_wallet"), Str("recipient_wallet"),
                Uint("timestamp"), Str("encrypted_payload"), Opt("attachment_url"),
                Uint("ttl"), Str("signature") >>
        ELSE << Str("id"), Str("sender_wallet"), Str("recipient_wallet"),
                Uint("timestamp"), Uint("ttl"), Str("encrypted_payload"),
                Opt("attachment_url"), Str("signature") >>
    ELSE IF kind = "Ack" THEN
        << Str("id"), Str("ref_message_id"), Uint("status") >>
    ELSE IF kind = "ReadReceipt" THEN
        << Str("id"), Str("message_id"), Str("reader"), Uint("read_at") >>
    ELSE IF kind = "Ping" THEN
        << Str("id"), Uint("timestamp"), Str("data") >>
    ELSE IF schema = "declared"
        THEN << Str("id"), Uint("timestamp"), Str("data"), Str("ref_ping_id") >>
        ELSE << Str("id"), Str("ref_ping_id"), Uint("timestamp"), Str("data") >>

\* the value a field has when the wire does not hold it
DefaultOf(f) == IF f.wt = "VARINT" THEN 0 ELSE << >>

\* the message of a variant with every field at its default
DefaultMessage(schema, kind) ==
    LET fs == Fields(schema, kind) IN
    [nm \in {fs[i].name : i \in 1 .. Len(fs)} |->
        DefaultOf(CHOOSE f \in {fs[i] : i \in 1 .. Len(fs)} : f.name = nm)]

\* prost::Message::encode_to_vec, fields i .. of the list: the fields in the
\* order of their numbers, each as number, wire type and value
RECURSIVE encode_fields(_, _, _, _)
encode_fields(fs, v, syntax, i) ==
    IF i > Len(fs) THEN << >>
    ELSE LET f == fs[i]
             x == v[f.name]
             written == IF f.opt THEN x # << >>
                        ELSE syntax = "proto2" \/ x # DefaultOf(f)
             val == IF f.opt /\ x # << >> THEN x[1] ELSE x
         IN (IF written THEN << [n |-> i, wt |-> f.wt, val |-> val] >> ELSE << >>)
            \o encode_fields(fs, v, syntax, i + 1)

encode_to_vec(schema, syntax, kind, v) == encode_fields(Fields(schema, kind), v, syntax, 1)

\* prost::Message::decode for one message type, wire fields j .. : a field
\* whose number the type does not have is skipped, a field whose number the
\* type has with another wire type is an error, a field not on the wire keeps
\* its default
RECURSIVE merge(_, _, _, _)
merge(fs, bytes, j, acc) ==
    IF j > Len(bytes) THEN [ok |-> TRUE, body |-> acc]
    ELSE LET e == bytes[j] IN
         IF e.n > Len(fs) THEN merge(fs, bytes, j + 1, acc)
         ELSE IF fs[e.n].wt # e.wt THEN [ok |-> FALSE, body |-> acc]
         ELSE merge(fs, bytes, j + 1,
                    [acc EXCEPT ![fs[e.n].name] = IF fs[e.n].opt THEN << e.val >> ELSE e.val])

decode_as(schema, kind, bytes) ==
    merge(Fields(schema, kind), bytes, 1, DefaultMessage(schema, kind))

\* handle_stream on the bytes of one read: nothing is decoded when the read
\* is empty; otherwise the variants are tried in their order, from the i-th,
\* and the first that decodes without error is taken
RECURSIVE decode_from(_, _, _)
decode_from(schema, bytes, i) ==
    IF i > Len(Variants) THEN [kind |-> None, body |-> << >>]
    ELSE LET d == decode_as(schema, Variants[i], bytes) IN
         IF d.ok THEN [kind |-> Variants[i], body |-> d.body]
         ELSE decode_from(schema, bytes, i + 1)

decode_inbound(schema, bytes) ==
    IF Len(bytes) = 0 THEN [kind |-> "EndOfStream", body |-> << >>]
    ELSE decode_from(schema, bytes, 1)

\* values of the five variants: every field empty or not, zero or not, the
\* optional one None, Some("") or Some of a text
Texts == { << >>, <<1>> }
Numbers == {0, 1}
CodecInputs ==
    { [kind |-> "Chat", body |-> b] :
        b \in [id : Texts, sender_wallet : Texts, recipient_wallet : Texts,
               timestamp : Numbers, encrypted_payload : Texts,
               attachment_url : { << >>, << << >> >>, << <<1>> >> },
               ttl : Numbers, signature : Texts] }
    \cup { [kind |-> "Ack", body |-> b] :
        b \in [id : Texts, ref_message_id : Texts, status : Numbers] }
    \cup { [kind |-> "ReadReceipt", body |-> b] :
        b \in [id : Texts, message_id : Texts, reader : Texts, read_at : Numbers] }
    \cup { [kind |-> "Ping", body |-> b] :
        b \in [id : Texts, timestamp : Numbers, data : Texts] }
    \cup { [kind |-> "Pong", body |-> b] :
        b \in [id : Texts, ref_ping_id : Texts, timestamp : Numbers, data : Texts] }

\* an envelope of any variant, under any numbering and syntax of the schema
CodecInit ==
    \E in \in CodecInputs, schema \in Schemas, syntax \in Syntaxes :
        Calling([fn |-> "codec", kind |-> in.kind, body |-> in.body,
                 schema |-> schema, syntax |-> syntax, out |-> "pending"])

\* the envelope is encoded; the bytes are decoded by the decoder of its own
\* type and by handle_stream
RoundTrip ==
    /\ fcall.fn = "codec"
    /\ fcall.out = "pending"
    /\ LET bytes == encode_to_vec(fcall.schema, fcall.syntax, fcall.kind, fcall.body)
       IN fcall' = [fn |-> "codec", kind |-> fcall.kind, body |-> fcall.body,
                    schema |-> fcall.schema, syntax |-> fcall.syntax, out |-> "done",
                    bytes |-> bytes,
                    typed |-> decode_as(fcall.schema, fcall.kind, bytes),
                    inbound |-> decode_inbound(fcall.schema, bytes)]
    /\ UNCHANGED <<routerVars, connState, rxAlive, chanVars, streamVars, histVars, acks,
                   nextId, messages_failed, active_connections, exit_code, stats_pc, wire>>

CodecSpec == CodecInit /\ [][RoundTrip]_vars

\* ---- one inbound stream read chunk by chunk (main.rs) ---------------------

\* the body of a stream as recv.read hands it out: in one piece, or in two
\* pieces cut after its k-th field
chunks_of(bytes, k) ==
    IF k = 0 \/ k >= Len(bytes) THEN << bytes >>
    ELSE << SubSeq(bytes, 1, k), SubSeq(bytes, k + 1, Len(bytes)) >>

\* how many messages the handler of a decoded variant writes on the stream:
\* handle_chat_message, handle_ack_message and handle_read_receipt_message
\* an Ack or an echo, handle_ping_message a Pong, handle_pong_message none
replies_to(kind) == IF kind \in {"Chat", "Ack", "ReadReceipt", "Ping"} THEN 1 ELSE 0

\* a client opens a stream and sends one envelope on it, which arrives in
\* one or two chunks
StreamInit ==
    \E in \in CodecInputs, schema \in Schemas, syntax \in Syntaxes, k \in 0 .. MaxCut :
        LET bytes == encode_to_vec(schema, syntax, in.kind, in.body) IN
        /\ Len(bytes) > 0
        /\ Calling([fn |-> "stream", kind |-> in.kind, body |-> in.body, schema |-> schema,
                    chunks |-> chunks_of(bytes, k), read |-> 0, decoded |-> << >>,
                    replies |-> 0, failed |-> 0, out |-> "open"])

\* handle_stream, one iteration of its loop: recv.read yields the next
\* chunk, which is decoded and handed to its handler
ReadChunk ==
    /\ fcall.fn = "stream"
    /\ fcall.out = "open"
    /\ fcall.read < Len(fcall.chunks)
    /\ LET d == decode_inbound(fcall.schema, fcall.chunks[fcall.read + 1])
       IN fcall' = [fcall EXCEPT !.read = @ + 1,
                                 !.decoded = Append(@, d),
                                 !.replies = @ + replies_to(d.kind),
                                 !.failed = IF d.kind = None
                                            THEN record_message_failed(@) ELSE @]
    /\ UNCHANGED <<routerVars, connState, rxAlive, chanVars, streamVars, histVars, acks,
                   nextId, messages_failed, active_connections, exit_code, stats_pc, wire>>

\* handle_stream: recv.read yields None at the end of the stream; the loop
\* ends and the sending side is finished
StreamEnd ==
    /\ fcall.fn = "stream"
    /\ fcall.out = "open"
    /\ fcall.read = Len(fcall.chunks)
    /\ fcall' = [fcall EXCEPT !.out = "finished"]
    /\ UNCHANGED <<routerVars, connState, rxAlive, chanVars, streamVars, histVars, acks,
                   nextId, messages_failed, active_connections, exit_code, stats_pc, wire>>

StreamNext == ReadChunk \/ StreamEnd

StreamSpec == StreamInit /\ [][StreamNext]_vars

\* ---- the metrics updater inside get_stats (router.rs) ----------------------

\* get_stats: self.connections.read().await is granted (the writers of the
\* table hold their lock within one step)
StatsLockTable ==
    /\ stats_pc = "idle"
    /\ stats_pc' = "table"
    /\ UNCHANGED <<routerVars, connState, rxAlive, chanVars, streamVars, histVars, acks,
                   nextId, messages_failed, active_connections, exit_code, wire, fcall>>

\* get_stats: self.message_queue.read().await is granted once no task holds
\* the write lock; the counts are taken and both guards are dropped
StatsLockQueue ==
    /\ stats_pc = "table"
    /\ queueLock = NoStream
    /\ stats_pc' = "idle"
    /\ UNCHANGED <<routerVars, connState, rxAlive, chanVars, streamVars, histVars, acks,
                   nextId, messages_failed, active_connections, exit_code, wire, fcall>>

\* Chat frames to wallet 1: its own, on connection 1, and those of wallet 2
\* on connection 2
LockChatInputs == { <<1, "W1", "W1", <<1>>, 0>>, <<2, "W2", "W1", <<1>>, 0>> }

LockChatFrame(s) == ChatFrameFrom(s, LockChatInputs)

\* register, unregister, route and stats interleaved at will
LockNext ==
    \/ \E c \in Conns : Accept(c)
    \/ \E c \in Conns : Pump(c)
    \/ \E s \in Streams : nextId <= MaxLockMsgs /\ LockChatFrame(s)
    \/ \E s \in Streams : RegisterInsert(s)
    \/ \E s \in Streams : DeliverStart(s)
    \/ \E s \in Streams : DrainSend(s)
    \/ \E s \in Streams : RouteLookup(s)
    \/ \E s \in Streams : RouteSend(s)
    \/ \E s \in Streams : RouteQueue(s)
    \/ \E w \in Wallets : Unregister(w)
    \/ StatsLockTable
    \/ StatsLockQueue

LockSpec == Init /\ [][LockNext]_vars

\* the relay with the outcome of every forwarding on record; connections
\* come and go
OutNext ==
    \/ \E c \in Conns : Accept(c)
    \/ \E c \in Conns : ConnectionClosed(c)
    \/ \E c \in Conns, outcome \in Outcomes : Forward(c, outcome)
    \/ \E s \in Streams : nextId <= MaxOutMsgs /\ LockChatFrame(s)
    \/ \E s \in Streams : RegisterInsert(s)
    \/ \E s \in Streams : DeliverStart(s)
    \/ \E s \in Streams : DrainSend(s)
    \/ \E s \in Streams : RouteLookup(s)
    \/ \E s \in Streams : RouteSend(s)
    \/ \E s \in Streams : RouteQueue(s)

OutSpec == Init /\ [][OutNext]_vars

\* the relay process: connections come and go, their streams are handled
\* concurrently
Next ==
    \/ \E c \in Conns : Accept(c)
    \/ \E c \in Conns : ConnectionClosed(c)
    \/ \E c \in Conns : Pump(c)
    \/ \E s \in Streams : nextId <= MaxMsgs /\ ChatFrame(s)
    \/ \E s \in Streams : RegisterInsert(s)
    \/ \E s \in Streams : DeliverStart(s)
    \/ \E s \in Streams : DrainSend(s)
    \/ \E s \in Streams : RouteLookup(s)
    \/ \E s \in Streams : RouteSend(s)
    \/ \E s \in Streams : RouteQueue(s)

Spec == Init /\ [][Next]_vars

\* the router driven one call at a time, as its tests drive it: a chat is
\* read and a wallet is unregistered only when no handler is running, the
\* connections stay up, and the receiving halves of the outboxes consume or
\* are dropped at any time
SeqNext ==
    \/ \E c \in Conns : Accept(c)
    \/ \E c \in Conns : ReceiverDropped(c)
    \/ \E c \in Conns : Pump(c)
    \/ \E s \in Streams : Quiet /\ nextId <= MaxSeqMsgs /\ ChatFrame(s)
    \/ \E s \in Streams : RegisterInsert(s)
    \/ \E s \in Streams : DeliverStart(s)
    \/ \E s \in Streams : DrainSend(s)
    \/ \E s \in Streams : RouteLookup(s)
    \/ \E s \in Streams : RouteSend(s)
    \/ \E s \in Streams : RouteQueue(s)
    \/ \E w \in Wallets : Quiet /\ Unregister(w)

SeqSpec == Init /\ [][SeqNext]_vars

\* the relay with clients that use one wallet on two connections; the
\* connections stay up
SharedNext ==
    \/ \E c \in Conns : Accept(c)
    \/ \E c \in Conns : Pump(c)
    \/ \E s \in Streams : nextId <= MaxSharedMsgs /\ SharedWalletFrame(s)
    \/ \E s \in Streams : RegisterInsert(s)
    \/ \E s \in Streams : DeliverStart(s)
    \/ \E s \in Streams : DrainSend(s)
    \/ \E s \in Streams : RouteLookup(s)
    \/ \E s \in Streams : RouteSend(s)
    \/ \E s \in Streams : RouteQueue(s)

SharedSpec == Init /\ [][SharedNext]_vars

\* the router called with chats and with messages of the other kinds, one
\* call at a time, wallets being unregistered in between; the receiving
\* halves of the outboxes consume or are dropped at any time
RouteNext ==
    \/ \E c \in Conns : Accept(c)
    \/ \E c \in Conns : ReceiverDropped(c)
    \/ \E c \in Conns : Pump(c)
    \/ \E s \in Streams : Quiet /\ nextId <= MaxCalls /\ RouteChatFrame(s)
    \/ \E s \in Streams : RegisterInsert(s)
    \/ \E s \in Streams : DeliverStart(s)
    \/ \E s \in Streams : DrainSend(s)
    \/ \E s \in Streams : RouteLookup(s)
    \/ \E s \in Streams : RouteSend(s)
    \/ \E s \in Streams : RouteQueue(s)
    \/ \E call \in RouteInputs : Quiet /\ nextId <= MaxCalls /\ RouteBack(call)
    \/ \E s \in Streams : Quiet /\ nextId <= MaxCalls /\ PingPongFrame(s)
    \/ \E w \in Wallets : Quiet /\ Unregister(w)

RouteSpec == Init /\ [][RouteNext]_vars

\* the process and its connection actors from start to exit: handshakes
\* succeed or fail, connections close, the outgoing tasks run on, and one
\* of the two servers may stop.  With at most MaxLifeMsgs chats no outbox
\* fills up, so no send is ever suspended.
LifeNext ==
    \/ \E c \in Conns : exit_code = Running /\ Accept(c)
    \/ \E c \in Conns : exit_code = Running /\ HandshakeFailed(c)
    \/ \E c \in Conns : exit_code = Running /\ ConnectionClosed(c)
    \/ \E c \in Conns : exit_code = Running /\ Pump(c)
    \/ \E c \in Conns : exit_code = Running /\ OutgoingEnds(c)
    \/ \E s \in Streams : exit_code = Running /\ nextId <= MaxLifeMsgs /\ LifeChatFrame(s)
    \/ \E s \in Streams : exit_code = Running /\ RegisterInsert(s)
    \/ \E s \in Streams : exit_code = Running /\ DeliverStart(s)
    \/ \E s \in Streams : exit_code = Running /\ DrainSend(s)
    \/ \E s \in Streams : exit_code = Running /\ RouteLookup(s)
    \/ \E s \in Streams : exit_code = Running /\ RouteQueue(s)
    \/ \E which \in {"metrics_server", "quic_server"} : ServerStopped(which)

LifeSpec == Init /\ [][LifeNext]_vars

\* the same process under tokio's scheduler: a task that can take a step
\* takes it eventually.  What clients and the network do (connect, send a
\* frame, close) and a server's stopping are under no obligation.
LifeFairSpec ==
    /\ Init /\ [][LifeNext]_vars
    /\ \A c \in Conns : WF_vars(exit_code = Running /\ Pump(c))
    /\ \A c \in Conns : WF_vars(exit_code = Running /\ OutgoingEnds(c))
    /\ \A s \in Streams : WF_vars(exit_code = Running /\ RegisterInsert(s))
    /\ \A s \in Streams : WF_vars(exit_code = Running /\ DeliverStart(s))
    /\ \A s \in Streams : WF_vars(exit_code = Running /\ DrainSend(s))
    /\ \A s \in Streams : WF_vars(exit_code = Running /\ RouteLookup(s))
    /\ \A s \in Streams : WF_vars(exit_code = Running /\ RouteQueue(s))

\* the relay with clients that submit frames of every kind; the connections
\* stay up
FrameNext ==
    \/ \E c \in Conns : Accept(c)
    \/ \E c \in Conns : Pump(c)
    \/ \E s \in Streams : nextId <= MaxFrames /\ Frame(s)
    \/ \E s \in Streams : RegisterInsert(s)
    \/ \E s \in Streams : DeliverStart(s)
    \/ \E s \in Streams : DrainSend(s)
    \/ \E s \in Streams : RouteLookup(s)
    \/ \E s \in Streams : RouteSend(s)
    \/ \E s \in Streams : RouteQueue(s)

FrameSpec == Init /\ [][FrameNext]_vars

\* ---- properties -------------------------------------------------------------

\* the last n elements of sequence q (all of q when it is shorter)
LastN(q, n) == IF Len(q) <= n THEN q ELSE SubSeq(q, Len(q) - n + 1, Len(q))

\* the stream that takes the step, if the step is a handler's
Acts(s) == pc'[s] # pc[s] \/ delivered'[s] # delivered[s]

\* the outbox a route_message call of stream s is about to send on
RouteChan(s) ==
    IF pc[s] = "send" THEN target[s]
    ELSE IF frame[s].recipient_wallet \in DOMAIN connections
         THEN connections[frame[s].recipient_wallet].send_channel
         ELSE NoConn

\* C1: routing identity. When route_message is called with a Chat whose
\* recipient is registered and whose outbox is open and has free capacity,
\* the outbox receives exactly one envelope, equal to the Chat in every
\* field, the sender is answered DELIVERED, no other outbox receives
\* anything and no offline queue changes.
C1_RoutingIdentity ==
    [][\A s \in Streams :
        LET c == RouteChan(s) IN
        (/\ pc[s] \in {"route", "send"}
         /\ Acts(s)
         /\ c # NoConn
         /\ rxAlive[c]
         /\ HasRoom(c))
        => /\ Len(placed'[c]) = Len(placed[c]) + 1
           /\ SubSeq(placed'[c], 1, Len(placed[c])) = placed[c]
           /\ LET e == placed'[c][Len(placed'[c])].message
                  m == frame[s]
              IN /\ e.id = m.id
                 /\ e.sender_wallet = m.sender_wallet
                 /\ e.recipient_wallet = m.recipient_wallet
                 /\ e.timestamp = m.timestamp
                 /\ e.ttl = m.ttl
                 /\ e.encrypted_payload = m.encrypted_payload
                 /\ e.attachment_url = m.attachment_url
                 /\ e.signature = m.signature
                 /\ e.recipient_wallet \in DOMAIN connections
                 /\ connections[e.recipient_wallet].send_channel = c
           /\ \A x \in Conns \ {c} : placed'[x] = placed[x]
           /\ message_queue' = message_queue
           /\ connState[sconn[s]] = "open"
                => AcksIn(acks', frame[s].id) = << AckMessage(frame[s].id, Delivered) >>
      ]_vars

\* C1 witness: a chat was sent straight to its recipient's outbox (nothing
\* has ever been queued) and was answered DELIVERED
C1_Witness ==
    /\ DOMAIN enq = {}
    /\ \E c \in Conns :
        /\ Len(placed[c]) = 1
        /\ AcksOf(placed[c][1].message.id) = << AckMessage(placed[c][1].message.id, Delivered) >>

\* the ids of the messages of q are strictly increasing: q is in the order
\* in which its chats were submitted
InSubmissionOrder(q) ==
    \A i, j \in 1 .. Len(q) : i < j => q[i].message.id < q[j].message.id

\* C2: queue FIFO. When a wallet registers and its offline queue holds the
\* chats C1..Cn routed to it while it had no usable outbox (n within the queue
\* capacity), the registration removes the whole queue (queued_messages
\* drops by n and the wallet has no queue left) and the registering
\* connection's outbox receives exactly C1..Cn, one per drain step, in the
\* order in which they were submitted.
C2_QueueFIFO ==
    [][\A s \in Streams :
        LET c == sconn[s]
            key == frame[s].sender_wallet
        IN
        /\ (pc[s] = "deliver" /\ pc'[s] = "drain")
           => /\ Len(enq[key]) <= MAX_QUEUED_MESSAGES => messages'[s] = enq[key]
              /\ InSubmissionOrder(messages'[s])
              /\ \A i \in 1 .. Len(messages'[s]) :
                    messages'[s][i].message.recipient_wallet = key
              /\ key \notin DOMAIN message_queue'
              /\ get_stats'.queued_messages
                    = get_stats.queued_messages - Len(messages'[s])
        /\ (pc[s] = "drain" /\ rxAlive[c] /\ Acts(s))
           => /\ placed'[c] = Append(placed[c], messages[s][delivered[s] + 1])
              /\ LastN(placed[c], delivered[s]) = SubSeq(messages[s], 1, delivered[s])
              /\ message_queue' = message_queue
              /\ pc'[s] = "route"
                   => /\ LastN(placed'[c], Len(messages[s])) = messages[s]
                      /\ key \notin DOMAIN message_queue'
      ]_vars

\* C2 witness: two chats were queued for a wallet, the wallet registered, and
\* its connection's outbox received exactly the two, in order; nothing is
\* queued any more
C2_Witness ==
    /\ queueLock = NoStream
    /\ get_stats.queued_messages = 0
    /\ \E r \in DOMAIN enq, c \in Conns :
        /\ Len(enq[r]) >= 2
        /\ r \notin DOMAIN message_queue
        /\ placed[c] = enq[r]

\* C3: drop-oldest under overflow. Each offline queue holds exactly the most
\* recent MAX_QUEUED_MESSAGES of the messages handed to it, in submission
\* order (with k more than the capacity handed in, the first k are gone), and
\* a registration drains exactly those to the outbox.
C3_DropOldest ==
    /\ \A r \in DOMAIN message_queue :
        /\ message_queue[r] = LastN(enq[r], MAX_QUEUED_MESSAGES)
        /\ InSubmissionOrder(enq[r])
    /\ \A s \in Streams :
        pc[s] = "drain"
        => /\ messages[s] = LastN(enq[frame[s].sender_wallet], MAX_QUEUED_MESSAGES)
           /\ LastN(placed[sconn[s]], delivered[s]) = SubSeq(messages[s], 1, delivered[s])

\* C3 witness: one more chat than the capacity was queued for a wallet; the
\* wallet registered and its outbox holds all of them but the first
C3_Witness ==
    /\ queueLock = NoStream
    /\ \E r \in DOMAIN enq, c \in Conns :
        /\ Len(enq[r]) = MAX_QUEUED_MESSAGES + 1
        /\ r \notin DOMAIN message_queue
        /\ placed[c] = Tail(enq[r])

\* C4: in every reachable state each recipient's offline queue holds at most
\* MAX_QUEUED_MESSAGES messages
C4_QueueBounded ==
    \A r \in DOMAIN message_queue : Len(message_queue[r]) <= MAX_QUEUED_MESSAGES

\* C4 witness: a queue that was handed more messages than its capacity is
\* exactly full
C4_Witness ==
    \E r \in DOMAIN message_queue :
        /\ Len(enq[r]) > MAX_QUEUED_MESSAGES
        /\ Len(message_queue[r]) = MAX_QUEUED_MESSAGES

\* the chat ids whose handler is running
InFlightIds == {frame[s].id : s \in InFlight}

C6_QueueWhenAbsent ==
    [][\A s \in Streams :
        LET rcp == frame[s].recipient_wallet
            old == IF rcp \in DOMAIN message_queue THEN message_queue[rcp] ELSE << >>
            full == Len(old) >= MAX_QUEUED_MESSAGES
        IN
        /\ (pc[s] = "route" /\ Acts(s) /\ rcp \notin DOMAIN connections)
           => /\ pc'[s] = "queue"
              /\ placed' = placed
              /\ message_queue' = message_queue
        /\ (pc[s] = "queue" /\ Acts(s))
           => /\ rcp \in DOMAIN message_queue'
              /\ LET new == message_queue'[rcp] IN
                 /\ new[Len(new)] = [message |-> frame[s], sender_addr |-> sconn[s]]
                 /\ SubSeq(new, 1, Len(new) - 1) = IF full THEN Tail(old) ELSE old
              /\ \A r \in DOMAIN message_queue \ {rcp} :
                    r \in DOMAIN message_queue' /\ message_queue'[r] = message_queue[r]
              /\ get_stats'.queued_messages
                    = get_stats.queued_messages + (IF full THEN 0 ELSE 1)
              /\ get_stats'.recipients_with_queued
                    = Cardinality(DOMAIN message_queue \cup {rcp})
              /\ placed' = placed
              /\ connState[sconn[s]] = "open"
                   => AcksIn(acks', frame[s].id) = << AckMessage(frame[s].id, Delivered) >>
      ]_vars

\* C6 witness: a chat for a wallet that never had a table entry sits at the
\* tail of that wallet's queue behind an earlier one, was answered DELIVERED,
\* and no outbox ever received anything
C6_Witness ==
    /\ \A c \in Conns : placed[c] = << >>
    /\ \E r \in DOMAIN message_queue :
        LET q == message_queue[r] IN
        /\ r \notin DOMAIN connections
        /\ Len(q) >= 2
        /\ AcksOf(q[Len(q)].message.id) = << AckMessage(q[Len(q)].message.id, Delivered) >>

\* C7: non-blocking send. A route_message call for a registered recipient
\* never waits on the recipient's outbox: no handler is ever suspended in the
\* send on an outbox that is open and full (it would queue the chat instead).
C7_NonBlockingSend ==
    \A s \in Streams :
        ~(pc[s] = "send" /\ rxAlive[target[s]] /\ ~HasRoom(target[s]))

\* C8: per-(sender, recipient) ordering. If a connection submitted chat C1
\* and, after C1 was answered, chat C2 to the same recipient, and both are on
\* one outbox, then C1 was placed before C2.
C8_PairOrdering ==
    \A c \in Conns :
        \A i, j \in 1 .. Len(placed[c]) :
            LET first == placed[c][i]
                second == placed[c][j]
            IN (/\ i < j
                /\ first.sender_addr = second.sender_addr
                /\ first.message.recipient_wallet = second.message.recipient_wallet)
               => second.message.id \notin ingress[first.message.id].answered

\* C9: a drain that fails part-way. When the send of Mi fails because the
\* outbox is closed, the wallet's queue afterwards starts with Mi, ..., Mn in
\* their original order, M1..Mi-1 are on the outbox, and the registration
\* goes on to return with the table entry in place.
C9_RequeueRemainder ==
    [][\A s \in Streams :
        LET key == frame[s].sender_wallet
            rest == SubSeq(messages[s], delivered[s] + 1, Len(messages[s]))
        IN
        (pc[s] = "drain" /\ ~rxAlive[sconn[s]] /\ Acts(s))
        => /\ key \in DOMAIN message_queue'
           /\ Len(message_queue'[key]) >= Len(rest)
           /\ SubSeq(message_queue'[key], 1, Len(rest)) = rest
           /\ LastN(placed'[sconn[s]], delivered[s]) = SubSeq(messages[s], 1, delivered[s])
           /\ key \in DOMAIN connections'
           /\ pc'[s] = "route"
      ]_vars

\* C10: unregister on termination. Once a connection's actor has returned
\* and every chat read from the connection had been answered before, the
\* connection table has no entry that points at the connection's outbox.
C10_UnregisterOnClose ==
    \A c \in Conns :
        (/\ connState[c] = "closed"
         /\ \A id \in DOMAIN ingress :
               ingress[id].conn = c => Len(AcksOf(id)) = 1)
        => \A k \in DOMAIN connections : connections[k].send_channel # c

\* C11: one table entry per wallet, the latest registration wins. A
\* registration of wallet W with outbox o binds W to o and to nothing else,
\* leaves the other entries alone and raises connected_clients only when W
\* had no entry; every route step that places a chat for W places it on the
\* outbox of W's current entry, the one registered last, and on no other.
C11_Supersede ==
    [][\A s \in Streams :
        LET key == frame[s].sender_wallet
            rcp == frame[s].recipient_wallet
        IN
        /\ (pc[s] = "register" /\ Acts(s))
           => /\ DOMAIN connections' = DOMAIN connections \cup {key}
              /\ connections'[key].send_channel = sconn[s]
              /\ \A k \in DOMAIN connections \ {key} : connections'[k] = connections[k]
              /\ get_stats'.connected_clients
                    = get_stats.connected_clients + (IF key \in DOMAIN connections THEN 0 ELSE 1)
        /\ (pc[s] \in {"route", "send"} /\ Acts(s))
           => \A c \in Conns :
                placed'[c] # placed[c]
                => /\ rcp \in DOMAIN connections
                   /\ connections[rcp].send_channel = c
                   /\ connections'[rcp].send_channel = c
      ]_vars

\* C11 witness: wallet 1 was registered with connection 1's outbox, which
\* received a chat for it, then with connection 2's outbox; a later chat for
\* wallet 1 is on connection 2's outbox, and the table counts one client
C11_Witness ==
    /\ Quiet
    /\ get_stats.connected_clients = 1
    /\ "W1" \in DOMAIN connections
    /\ connections["W1"].send_channel = 2
    /\ Len(placed[1]) >= 1
    /\ Len(placed[2]) >= 1
    /\ placed[1][1].message.recipient_wallet = "W1"
    /\ LET last == placed[2][Len(placed[2])].message IN
       /\ last.recipient_wallet = "W1"
       /\ \A i \in 1 .. Len(placed[1]) : placed[1][i].message.id < last.id

\* the chat with this id is in no outbox, in no offline queue and in no
\* handler's hands
NotRouted(id) ==
    /\ \A c \in Conns : \A i \in 1 .. Len(placed[c]) : placed[c][i].message.id # id
    /\ \A r \in DOMAIN message_queue :
         \A i \in 1 .. Len(message_queue[r]) : message_queue[r][i].message.id # id
    /\ \A r \in DOMAIN enq : \A i \in 1 .. Len(enq[r]) : enq[r][i].message.id # id
    /\ \A s \in Streams : frame[s].id # id /\ \A i \in 1 .. Len(messages[s]) : messages[s][i].message.id # id

\* C12: a Chat frame with an empty encrypted_payload is answered with one
\* Ack{REJECTED, ref = its id} and is not routed, whatever its ttl and the
\* clock say (an empty chat past its TTL is REJECTED, not EXPIRED).
C12_EmptyRejected ==
    \A id \in DOMAIN ingress :
        (ingress[id].kind = "Chat" /\ ingress[id].body.encrypted_payload = << >>)
        => /\ AcksOf(id) = << AckMessage(id, Rejected) >>
           /\ NotRouted(id)

\* C12 witness: a chat that is empty and past its TTL was answered REJECTED
C12_Witness ==
    \E id \in DOMAIN ingress :
        /\ ingress[id].kind = "Chat"
        /\ ingress[id].body.encrypted_payload = << >>
        /\ ingress[id].body.ttl > 0
        /\ ingress[id].at > ingress[id].body.timestamp + ingress[id].body.ttl
        /\ AcksOf(id) = << AckMessage(id, Rejected) >>

\* C13: a Chat frame with a non-empty payload that is expired when it is read
\* (ttl > 0 and now > timestamp + ttl) is answered with one Ack{EXPIRED} and
\* reaches no outbox and no offline queue.
C13_ExpiredAnswered ==
    \A id \in DOMAIN ingress :
        (/\ ingress[id].kind = "Chat"
         /\ ingress[id].body.encrypted_payload # << >>
         /\ ingress[id].body.ttl > 0
         /\ ingress[id].at > ingress[id].body.timestamp + ingress[id].body.ttl)
        => /\ AcksOf(id) = << AckMessage(id, Expired) >>
           /\ NotRouted(id)

\* C13 witness: a non-empty chat past its TTL was answered EXPIRED while an
\* earlier chat for the same recipient sits untouched in the offline queue
C13_Witness ==
    \E id \in DOMAIN ingress :
        /\ ingress[id].kind = "Chat"
        /\ ingress[id].body.encrypted_payload # << >>
        /\ ingress[id].at > ingress[id].body.timestamp + ingress[id].body.ttl
        /\ ingress[id].body.ttl > 0
        /\ AcksOf(id) = << AckMessage(id, Expired) >>
        /\ ingress[id].body.recipient_wallet \in DOMAIN message_queue
        /\ \A i \in 1 .. Len(message_queue[ingress[id].body.recipient_wallet]) :
              message_queue[ingress[id].body.recipient_wallet][i].message.id < id

\* C14: address validation. A chat whose sender or recipient does not parse
\* as a wallet address is answered REJECTED and is routed nowhere: every
\* message in an outbox or in an offline queue has a sender and a recipient
\* that parse, and no such chat was answered otherwise than REJECTED.
C14_AddressesValidated ==
    LET wellAddressed(m) ==
            /\ parse_wallet(m.message.sender_wallet) # ParseErr
            /\ parse_wallet(m.message.recipient_wallet) # ParseErr
    IN /\ \A c \in Conns : \A i \in 1 .. Len(placed[c]) : wellAddressed(placed[c][i])
       /\ \A r \in DOMAIN message_queue :
            \A i \in 1 .. Len(message_queue[r]) : wellAddressed(message_queue[r][i])

\* the text of an id before its first dash
BeforeFirstDash(id) ==
    LET k == CHOOSE n \in 0 .. Len(id) :
                 /\ \A i \in 1 .. n : id[i] # "-"
                 /\ n = Len(id) \/ id[n + 1] = "-"
    IN IF k = 0 THEN "" ELSE id[1]

\* C15: route(Ack) and route(ReadReceipt) address the wallet named by the
\* text of the referenced id before its first dash.  The call returns
\* DELIVERED exactly when that wallet is registered and the send on its
\* outbox succeeded, and then the envelope is the new last element of that
\* outbox; otherwise it returns FAILED and no outbox changes.  No offline
\* queue changes in either case.
C15_RouteBack ==
    [][(nextId' = nextId + 1 /\ nextId \in DOMAIN ingress'
        /\ "call" \in DOMAIN ingress'[nextId]
        /\ ingress'[nextId].call.kind \in {"Ack", "ReadReceipt"})
       => LET call == ingress'[nextId].call
              result == ingress'[nextId].result
              w == BeforeFirstDash(IF call.kind = "Ack" THEN call.body.ref_message_id
                                   ELSE call.body.message_id)
              registered == w \in DOMAIN connections
              sent == registered /\ rxAlive[connections[w].send_channel]
          IN /\ message_queue' = message_queue
             /\ enq' = enq
             /\ connections' = connections
             /\ result = IF sent THEN Delivered ELSE Failed
             /\ placed' = IF sent
                          THEN [placed EXCEPT ![connections[w].send_channel] =
                                   Append(@, [message |-> call.body, sender_addr |-> call.addr])]
                          ELSE placed
      ]_vars

\* C15 witness: with a chat waiting in an offline queue, an Ack was routed
\* to the registered wallet its reference starts with and is the last
\* element of that wallet's outbox, and a later ReadReceipt for the same
\* wallet failed because the outbox's receiver was gone
C15_Witness ==
    \E i, j \in DOMAIN ingress :
        /\ i < j
        /\ "call" \in DOMAIN ingress[i] /\ "call" \in DOMAIN ingress[j]
        /\ ingress[i].call.kind = "Ack" /\ ingress[i].result = Delivered
        /\ ingress[j].call.kind = "ReadReceipt" /\ ingress[j].result = Failed
        /\ original_sender(ingress[i].call.body.ref_message_id) = "W1"
        /\ original_sender(ingress[j].call.body.message_id) = "W1"
        /\ "W1" \in DOMAIN connections
        /\ placed[connections["W1"].send_channel] # << >>
        /\ placed[connections["W1"].send_channel][Len(placed[connections["W1"].send_channel])].message
             = ingress[i].call.body
        /\ "W2" \in DOMAIN message_queue

\* C16: an Ack or ReadReceipt frame is handed to the router and the reply
\* on its stream reports the outcome: when the wallet its reference starts
\* with is no registered wallet the reply is one Ack{FAILED}; a reply that
\* does not report a failure means the envelope is on an outbox.
C16_AckFrameRouted ==
    \A id \in DOMAIN ingress :
        ingress[id].kind \in {"Ack", "ReadReceipt"}
        => LET w == original_sender(ref_of(ingress[id].kind, ingress[id].body))
               reply == AcksOf(id)
               failed == /\ Len(reply) = 1
                         /\ "status" \in DOMAIN reply[1]
                         /\ reply[1].status = Failed
           IN /\ w \notin DOMAIN connections => failed
              /\ ~failed => \E c \in Conns : \E i \in 1 .. Len(placed[c]) :
                                placed[c][i].message = ingress[id].body

\* a frame that decodes as no variant is read in this step
MalformedRead ==
    /\ nextId' = nextId + 1
    /\ nextId \in DOMAIN ingress'
    /\ ingress'[nextId].kind \notin {"Chat", "Ack", "ReadReceipt", "Ping", "Pong"}

\* the chats read after a malformed frame of the same connection
AfterMalformed ==
    {id \in DOMAIN ingress :
        /\ ingress[id].kind = "Chat"
        /\ \E g \in DOMAIN ingress :
              /\ g < id
              /\ ingress[g].conn = ingress[id].conn
              /\ ingress[g].kind \notin {"Chat", "Ack", "ReadReceipt", "Ping", "Pong"}}

\* C17: reading a frame that decodes as none of the five variants adds
\* exactly 1 to messages_failed and leaves the connection open and the
\* router state as they were; a valid Chat read later from the same
\* connection is routed and, once handled, answered with one
\* Ack{DELIVERED}.
C17_MalformedCounted ==
    [][/\ MalformedRead
          => /\ messages_failed' = messages_failed + 1
             /\ connState' = connState
             /\ connState[ingress'[nextId].conn] = "open"
             /\ UNCHANGED routerVars
       /\ \A id \in AfterMalformed' :
             validate(ingress'[id].body, ingress'[id].at) = None
             => IF id \in InFlightIds'
                THEN AcksIn(acks', id) = << >>
                ELSE /\ AcksIn(acks', id) = << AckMessage(id, Delivered) >>
                     /\ \/ \E c \in Conns : \E i \in 1 .. Len(placed'[c]) :
                              placed'[c][i].message.id = id
                        \/ \E r \in DOMAIN enq' : \E i \in 1 .. Len(enq'[r]) :
                              enq'[r][i].message.id = id
      ]_vars

\* C17 witness: a malformed frame was read from connection 2 and counted
\* once, the connection is open, and a chat read from it afterwards is in
\* the recipient's offline queue or outbox and was answered DELIVERED
C17_Witness ==
    /\ messages_failed = 1
    /\ connState[2] = "open"
    /\ \E id \in AfterMalformed :
          /\ ingress[id].conn = 2
          /\ AcksOf(id) = << AckMessage(id, Delivered) >>
          /\ ~NotRouted(id)

\* the places of the chat with this id in the outboxes
PlacesOf(id) ==
    {p \in Conns \X (1 .. MaxFrames + 1) :
        p[2] <= Len(placed[p[1]]) /\ placed[p[1]][p[2]].message.id = id}

\* every chat is on the outboxes at most once, and a routed chat that was
\* answered is on an outbox or was handed to an offline queue
NothingLostOrDuplicated ==
    \A id \in DOMAIN ingress :
        ingress[id].kind = "Chat"
        => /\ Cardinality(PlacesOf(id)) <= 1
           /\ (validate(ingress[id].body, ingress[id].at) = None /\ id \notin InFlightIds)
              => \/ PlacesOf(id) # {}
                 \/ \E r \in DOMAIN enq : \E i \in 1 .. Len(enq[r]) : enq[r][i].message.id = id

\* C18: isolation. Reading a malformed frame is invisible to every client:
\* the step changes no outbox, no offline queue, no table entry, no handler
\* and no reply, so the run goes on as the run without that frame would;
\* and in runs with malformed frames interleaved no chat is lost and none
\* is delivered twice.
C18_Isolation ==
    [][/\ MalformedRead
          => UNCHANGED <<placed, taken, rxAlive, connections, message_queue, connReaders,
                         queueLock, pc, sconn, frame, target, messages, delivered,
                         acks, enq, connState>>
       /\ NothingLostOrDuplicated'
      ]_vars

\* C18 witness: connection 2 sent a malformed frame between two chats of
\* connection 1, and both chats are on the recipient's outbox in the order
\* they were sent
C18_Witness ==
    \E a, g, b \in DOMAIN ingress :
        /\ a < g /\ g < b
        /\ ingress[a].kind = "Chat" /\ ingress[b].kind = "Chat"
        /\ ingress[a].conn = 1 /\ ingress[b].conn = 1
        /\ ingress[g].conn = 2
        /\ ingress[g].kind \notin {"Chat", "Ack", "ReadReceipt", "Ping", "Pong"}
        /\ \E c \in Conns : \E i, j \in 1 .. Len(placed[c]) :
              /\ i < j
              /\ placed[c][i].message.id = a
              /\ placed[c][j].message.id = b

\* C19: one client's full outbox stalls nobody else. A handler that waits to
\* register a wallet other than R is never kept from the connection table
\* by a sender that is suspended on R's full outbox: such a sender holds no
\* lock of the router.
C19_NoStallBehindFullOutbox ==
    \A s, b \in Streams :
        (/\ pc[s] = "register"
         /\ pc[b] = "send"
         /\ rxAlive[target[b]] /\ ~HasRoom(target[b])
         /\ frame[s].sender_wallet # frame[b].recipient_wallet)
        => b \notin connReaders

\* C20: unregister(wallet) removes the wallet's table entry if there is one
\* and changes nothing else: every other entry, every offline queue (the
\* wallet's own too) and every outbox stay as they are; for a wallet
\* without entry nothing changes.  (A step taken while no handler runs that
\* reads no frame and moves no connection or receiver is an unregister.)
C20_UnregisterFrame ==
    [][(/\ Quiet
        /\ nextId' = nextId
        /\ connState' = connState /\ rxAlive' = rxAlive /\ taken' = taken)
       => /\ \E w \in Wallets :
               /\ DOMAIN connections' = DOMAIN connections \ {to_string(w)}
               /\ \A k \in DOMAIN connections' : connections'[k] = connections[k]
          /\ message_queue' = message_queue
          /\ UNCHANGED <<enq, placed, queueLock, connReaders, streamVars, acks,
                         messages_failed>>
      ]_vars

\* C20 witness: wallet 1 registered, sent itself a chat that had to be
\* queued, and was unregistered: it has no table entry, its own offline
\* queue still holds the chat, and wallet 2 is still registered
C20_Witness ==
    /\ Quiet
    /\ "W1" \notin DOMAIN connections
    /\ "W2" \in DOMAIN connections
    /\ "W1" \in DOMAIN message_queue
    /\ message_queue["W1"] # << >>
    /\ message_queue["W1"][1].message.sender_wallet = "W1"

\* the log entry written by the step, when the step reads a frame or
\* calls the router
Logged == nextId' = nextId + 1 /\ nextId \in DOMAIN ingress'

Keys == {"W1", "W2", "bad", ""}

\* the router state counted one element at a time
Counted ==
    [connected_clients |-> Cardinality({k \in Keys : k \in DOMAIN connections}),
     queued_messages |->
         Cardinality({p \in Keys \X (1 .. MAX_QUEUED_MESSAGES) :
                        p[1] \in DOMAIN message_queue /\ p[2] <= Len(message_queue[p[1]])}),
     recipients_with_queued |-> Cardinality({k \in Keys : k \in DOMAIN message_queue})]

\* C22: stats() reports the router state exactly. Its three numbers are the
\* number of table entries, the number of queued messages over all offline
\* queues and the number of offline queues; registering a wallet that has
\* no entry raises connected_clients by one, registering one that has an
\* entry leaves it, unregistering a wallet that has an entry lowers it by
\* one, and no other step changes it.
C22_StatsExact ==
    [][/\ get_stats' = Counted'
       /\ get_stats = Counted
       /\ LET before == get_stats.connected_clients
              after == get_stats'.connected_clients
              registering == {s \in Streams : pc[s] = "register" /\ pc'[s] # "register"}
              unregistering == /\ pc' = pc
                               /\ nextId' = nextId
                               /\ connState' = connState /\ rxAlive' = rxAlive /\ taken' = taken
          IN IF registering # {}
             THEN \A s \in registering :
                      after = before + (IF frame[s].sender_wallet \in DOMAIN connections
                                        THEN 0 ELSE 1)
             ELSE IF unregistering
             THEN after = before - (IF connections' = connections THEN 0 ELSE 1)
             ELSE after = before
      ]_vars

\* C22 witness: the only registered wallet was unregistered while two chats
\* wait in one offline queue: stats() reports 0 clients, 2 messages, 1 queue
C22_Witness ==
    /\ Quiet
    /\ get_stats = [connected_clients |-> 0, queued_messages |-> 2,
                    recipients_with_queued |-> 1]
    /\ \E r \in DOMAIN message_queue :
          parse_wallet(message_queue[r][1].message.sender_wallet) # ParseErr

\* C23: the supervisor runs the acceptor and the scrape server together,
\* and when either of them returns the process exits with a non-zero code:
\* the process never exits with code 0.
C23_ExitNonZero == exit_code # 0

\* C27: closing the connection cancels both tasks of its actor: once a
\* connection is closed, eventually its outgoing task has ended (and takes
\* nothing more from the outbox), unless the process exits first.  The
\* incoming task has ended when the connection is closed.
C27_TasksCancelled ==
    \A c \in Conns :
        (connState[c] = "closed") ~> (~rxAlive[c] \/ exit_code # Running)

\* C29: the active_connections gauge is the number of connections whose
\* handshake succeeded and whose actor has not returned; it is never
\* negative, and a failed handshake does not count.
C29_GaugeExact ==
    /\ active_connections = Cardinality({c \in Conns : connState[c] = "open"})
    /\ active_connections >= 0

\* C29 witness: one connection was established and has terminated, the
\* handshake of the other failed, and the gauge is back at 0
C29_Witness ==
    /\ connState[1] = "closed"
    /\ connState[2] = "failed"
    /\ active_connections = 0

\* C28: registration is latched per connection. A chat read from a
\* connection whose outbox is already bound in the connection table does
\* not register again: its handler changes no table entry and starts no
\* drain of an offline queue, but goes straight on to route the chat.
C28_RegistrationLatched ==
    [][\A s \in Streams :
        (/\ pc[s] = "register" /\ pc'[s] # "register"
         /\ \E w \in DOMAIN connections : connections[w].send_channel = sconn[s])
        => /\ connections' = connections
           /\ pc'[s] = "route"
      ]_vars

\* the chats that wait for recipient r: those in r's offline queue and those
\* a drain for r has removed from it and not yet sent
Waiting(r) ==
    (IF r \in DOMAIN message_queue
     THEN {message_queue[r][i].message.id : i \in 1 .. Len(message_queue[r])}
     ELSE {}) \cup
    UNION {{messages[s][i].message.id : i \in (delivered[s] + 1) .. Len(messages[s])} :
             s \in {x \in Streams : pc[x] = "drain" /\ frame[x].sender_wallet = r}}

\* C30: the TTL is looked at only when a chat is read. A queued chat stays
\* queued until the recipient registers and is then put on the recipient's
\* outbox, whatever the clock reads: a chat stops waiting for its recipient
\* only by being placed on an outbox or by being the oldest of a full queue
\* when another chat is queued.
C30_QueuedUntilDelivered ==
    [][\A r \in {"W1", "W2"} :
        \A id \in Waiting(r) \ Waiting(r)' :
            \/ \E c \in Conns :
                  /\ Len(placed'[c]) = Len(placed[c]) + 1
                  /\ placed'[c][Len(placed'[c])].message.id = id
            \/ /\ r \in DOMAIN message_queue
               /\ Len(message_queue[r]) = MAX_QUEUED_MESSAGES
               /\ message_queue[r][1].message.id = id
               /\ \E s \in Streams : pc[s] = "queue" /\ pc'[s] = "idle"
      ]_vars

\* C25: is_expired returns true iff ttl > 0 and now > timestamp + ttl, the
\* sum being the mathematical sum, for every timestamp and ttl: the call
\* always returns, and a Chat with ttl = 0 is never expired.
C25_ExpiryExact ==
    (fcall.fn = "is_expired" /\ fcall.out # "pending")
    => fcall.out = IF fcall.ttl > 0 /\ fcall.now > fcall.timestamp + fcall.ttl
                  THEN "true" ELSE "false"

\* the task of stream s holds the write lock of the offline queues
HoldsQueue(s) == queueLock = s

\* the task of stream s is at a point where it requests the lock of the
\* connection table (write lock in register_client, read lock in
\* route_message)
RequestsTable(s) == pc[s] \in {"register", "route"}

\* the task of stream s holds the read lock of the table
HoldsTable(s) == s \in connReaders

\* the task of stream s waits for the queue lock that another task holds
WaitsForQueue(s) == pc[s] \in {"deliver", "queue"} /\ queueLock \notin {NoStream, s}

\* C26: lock discipline. A task that holds the offline-queue lock never
\* requests the connection-table lock and holds none of it (it is inside the
\* drain loop), so no state has two tasks waiting on each other's router lock:
\* whoever waits for the queue lock, with or without the table lock in hand,
\* waits for a task that needs no router lock to go on.
C26_LockOrder ==
    /\ \A s \in Streams :
        HoldsQueue(s) => /\ ~RequestsTable(s)
                         /\ ~HoldsTable(s)
                         /\ pc[s] = "drain"
    /\ ~\E a \in Streams :
          /\ HoldsQueue(a) /\ RequestsTable(a)
          /\ \/ stats_pc = "table"
             \/ \E b \in Streams \ {a} : HoldsTable(b) /\ WaitsForQueue(b)

\* C26 witness: get_stats holds the read lock of the table and waits for the
\* queue lock, which a registering task holds while it drains an offline
\* queue; a third party is about to request the table lock
C26_Witness ==
    \E a \in Streams : \E b \in Streams \ {a} :
        /\ HoldsQueue(a)
        /\ stats_pc = "table"
        /\ RequestsTable(b)

\* the decoder of the envelope's own type gives the envelope back
TypedRoundTrip ==
    (fcall.fn = "codec" /\ fcall.out = "done")
    => fcall.typed.ok /\ fcall.typed.body = fcall.body

\* the relay's inbound decoder gives the envelope back, as the same variant
InboundRoundTrip ==
    (fcall.fn = "codec" /\ fcall.out = "done")
    => fcall.inbound.kind = fcall.kind /\ fcall.inbound.body = fcall.body

\* C24: codec round trip. For every envelope variant and every value of it,
\* decoding the encoded value gives the value back with every field
\* preserved, also when the decoder is the relay's inbound decoder, which
\* tries the variants in the order Chat, Ack, ReadReceipt, Ping, Pong.
C24_RoundTrip == TypedRoundTrip /\ InboundRoundTrip

\* the frames answered in this step with an Ack REJECTED or EXPIRED
RefusedNow ==
    {id \in DOMAIN acks' :
        /\ id \notin DOMAIN acks
        /\ "status" \in DOMAIN acks'[id][1]
        /\ acks'[id][1].status \in {Rejected, Expired}}

\* C37: a Chat that is rejected at validation (empty payload) or expired
\* leaves the whole router state unchanged: the step that answers it changes
\* neither the connection table nor an outbox nor an offline queue, takes no
\* lock and starts no handler that would register the sender or drain its
\* queue.
C37_RefusedNoEffect ==
    [][RefusedNow # {}
       => UNCHANGED <<connections, message_queue, connReaders, queueLock, placed, taken,
                      rxAlive, pc, sconn, frame, target, messages, delivered, enq>>
      ]_vars

\* C37 witness: a chat of wallet 1 was answered REJECTED or EXPIRED while
\* chats for wallet 1 wait in its offline queue and wallet 1 has no entry in
\* the table: it was not registered, its queue was not drained
C37_Witness ==
    /\ Quiet
    /\ \E id \in DOMAIN ingress :
        /\ ingress[id].kind = "Chat"
        /\ AcksOf(id) # << >>
        /\ AcksOf(id)[1].status \in {Rejected, Expired}
        /\ parse_wallet(ingress[id].body.sender_wallet) # ParseErr
        /\ ingress[id].body.sender_wallet \notin DOMAIN connections
        /\ ingress[id].body.sender_wallet \in DOMAIN message_queue

\* C36: the offline-queue map never holds an empty queue. Each key of the
\* map has at least one message, so stats() reports at most as many queues
\* as messages, and no message iff no queue.
C36_NoEmptyQueue ==
    /\ \A r \in DOMAIN message_queue : Len(message_queue[r]) >= 1
    /\ get_stats.recipients_with_queued <= get_stats.queued_messages
    /\ get_stats.queued_messages = 0 <=> get_stats.recipients_with_queued = 0

\* C36 witness: one offline queue was drained and its key is gone from the
\* map, another queue is waiting
C36_Witness ==
    /\ Quiet
    /\ get_stats.recipients_with_queued = 1
    /\ \E r \in DOMAIN enq : r \notin DOMAIN message_queue

\* the connections whose outgoing task took a message in this step
Forwarding == {c \in Conns : Len(wire'[c]) > Len(wire[c])}

\* C31: in the outbound task a failed stream open or a failed write drops
\* only the message being forwarded. The step takes exactly the next message
\* of the outbox and puts its outcome on record; whatever the outcome, the
\* task lives on with the rest of its outbox untouched, and the message goes
\* back to no outbox and to no offline queue.
C31_FailureDropsOne ==
    [][\A c \in Forwarding :
          /\ taken'[c] = taken[c] + 1
          /\ Len(wire'[c]) = taken'[c]
          /\ wire'[c][taken'[c]].message = placed[c][taken'[c]]
          /\ rxAlive'[c]
          /\ placed' = placed
          /\ message_queue' = message_queue
          /\ \A x \in Conns \ {c} : taken'[x] = taken[x] /\ wire'[x] = wire[x]
      ]_vars

\* C31 witness: a forwarding failed and the next message of the same outbox
\* was forwarded after it; nothing is queued
C31_Witness ==
    /\ message_queue = << >>
    /\ \E c \in Conns : \E i \in 1 .. Len(wire[c]) - 1 :
          /\ wire[c][i].outcome # "forwarded"
          /\ wire[c][i + 1].outcome = "forwarded"

\* C32: one envelope per bidirectional stream. When the stream has been
\* read to its end, the relay has decoded once, the body as a whole, and has
\* written at most one reply, in however many chunks the body arrived.
C32_OneEnvelopePerStream ==
    (fcall.fn = "stream" /\ fcall.out = "finished")
    => /\ Len(fcall.decoded) = 1
       /\ fcall.replies <= 1

\* C33: register always returns. A task inside deliver_queued_messages,
\* which holds the offline-queue lock, can always take its next step without
\* anybody's help: the outbox it drains into has room for the next message,
\* or is closed, so that the task never waits for the outbox to be drained
\* while it holds the lock.
C33_RegisterNeverWaits ==
    \A s \in Streams :
        pc[s] = "drain" => \/ ~rxAlive[sconn[s]]
                           \/ HasRoom(sconn[s])

\* C34: no stranded message. When no route and no register is running, a
\* wallet that has an entry in the table whose outbox is open and has room
\* has no message left in its offline queue: a chat routed while the wallet
\* was registering is on the outbox.
C34_NoStrandedMessage ==
    Quiet =>
        \A r \in DOMAIN connections :
            LET c == connections[r].send_channel IN
            (rxAlive[c] /\ connState[c] = "open" /\ HasRoom(c))
            => r \notin DOMAIN message_queue


\* the chats addressed to wallet w that the step appends to outbox c
AppendedFor(w, c) ==
    {i \in (Len(placed[c]) + 1) .. Len(placed'[c]) :
        placed'[c][i].message.recipient_wallet = w}

\* C38: the binding of a wallet is safe from other connections. While the
\* connection X whose outbox is registered for wallet W stays open, W's
\* table entry keeps pointing at X's outbox and no step places a chat
\* addressed to W on the outbox of another connection, whatever sender
\* field the chats of the other connections carry.
C38_BindingNotHijacked ==
    [][\A w \in DOMAIN connections :
        LET x == connections[w].send_channel IN
        (connState[x] = "open" /\ connState'[x] = "open" /\ rxAlive[x] /\ rxAlive'[x])
        => /\ w \in DOMAIN connections'
           /\ connections'[w].send_channel = x
           /\ \A y \in Conns \ {x} : AppendedFor(w, y) = {}
      ]_vars


\* how many times the chat with this id is on the outboxes (consumed or not)
SentCount(id) ==
    Cardinality(UNION {{<<c, i>> : i \in {j \in 1 .. Len(placed[c]) :
                                            placed[c][j].message.id = id}} : c \in Conns})

\* how many times the chat with this id is in the offline queues, or in the
\* Vec a running drain has removed from them and not yet sent
QueuedCount(id) ==
    Cardinality(UNION {{<<r, i>> : i \in {j \in 1 .. Len(message_queue[r]) :
                                            message_queue[r][j].message.id = id}} :
                         r \in DOMAIN message_queue})
    + Cardinality(UNION {{<<s, i>> : i \in {j \in (delivered[s] + 1) .. Len(messages[s]) :
                                              messages[s][j].message.id = id}} :
                           s \in {x \in Streams : pc[x] = "drain"}})

\* the step evicts the chat with this id: it is the oldest of a full queue
\* and queue_message queues another chat behind it
EvictedByStep(id) ==
    /\ \E r \in DOMAIN message_queue :
          /\ Len(message_queue[r]) = MAX_QUEUED_MESSAGES
          /\ message_queue[r][1].message.id = id
    /\ \E s \in Streams : pc[s] = "queue" /\ pc'[s] = "idle"

\* C35: conservation without duplication. A chat that was answered DELIVERED
\* is, from the answer on, exactly once on an outbox or exactly once in an
\* offline queue, never both and never twice; the only step after which it
\* is in neither place is the drop-oldest eviction from a full queue.
C35_Conservation ==
    [][\A id \in 1 .. (nextId - 1) :
        AcksIn(acks', id) = << AckMessage(id, Delivered) >>
        => /\ SentCount(id)' + QueuedCount(id)' <= 1
           /\ AcksOf(id) = << >> => SentCount(id)' + QueuedCount(id)' = 1
           /\ (SentCount(id) + QueuedCount(id) = 1 /\ SentCount(id)' + QueuedCount(id)' = 0)
              => EvictedByStep(id)
      ]_vars

====
